---- MODULE Spec2Model ----
(***************************************************************************)
(* mux-web-streams: the frame codec (src/src/helpers.ts), the multiplexer  *)
(* (src/src/muxer.ts) and the demultiplexer (src/unnamed/part_003,         *)
(* src/mux-web-streams/demuxer.ts), together with the parts of the WHATWG  *)
(* ReadableStream / WritableStream machinery that the code drives          *)
(* (controller queue, desiredSize, pull / pullAgain, read requests).       *)
(***************************************************************************)
EXTENDS Integers, Sequences, FiniteSets, TLC

(***************************************************************************)
(* Bounds of the model.                                                    *)
(***************************************************************************)
NumStreams == 3
MaxLen == 2
MaxTotal == 3
MaxWait == 3

(***************************************************************************)
(* Program constants.                                                      *)
(***************************************************************************)
HEADER_LENGTH == 4
NUMBER_OFFSET == 5
MAX_UINT8 == 2 ^ 8 - 1 - NUMBER_OFFSET
START_OF_HEADING == 1
HighWaterMark == 1

Ids == 0 .. (NumStreams - 1)

(***************************************************************************)
(* Values (SerializableData).  A value is a record [k, v]: k is the kind   *)
(* and v a sequence of integers: the number itself, the character codes of *)
(* a string, the elements of an array of numbers, the bytes of a           *)
(* Uint8Array, 0/1 for a boolean, nothing for null.  For an object v is    *)
(* the sequence of its members <<key, number>>, key a sequence of          *)
(* character codes, in the order of its keys.                              *)
(***************************************************************************)
Num(n) == [k |-> "num", v |-> <<n>>]
Str(s) == [k |-> "str", v |-> s]
Arr(a) == [k |-> "arr", v |-> a]
Raw(b) == [k |-> "raw", v |-> b]
Bool(b) == [k |-> "bool", v |-> IF b THEN <<1>> ELSE <<0>>]
NullValue == [k |-> "null", v |-> <<>>]
Obj(members) == [k |-> "obj", v |-> members]

(* ASCII text used by JSON.stringify / JSON.parse *)
Digit(d) == 48 + d
HexDigit(d) == IF d < 10 THEN 48 + d ELSE 87 + d
QUOTE == 34
BACKSLASH == 92
TextNull == <<110, 117, 108, 108>>
TextTrue == <<116, 114, 117, 101>>
TextFalse == <<102, 97, 108, 115, 101>>

RECURSIVE Digits(_)
Digits(n) == IF n < 10 THEN <<Digit(n)>> ELSE Digits(n \div 10) \o <<Digit(n % 10)>>

RECURSIVE JoinNumbers(_)
JoinNumbers(a) ==
  IF a = <<>> THEN <<>>
  ELSE IF Len(a) = 1 THEN Digits(a[1])
  ELSE Digits(a[1]) \o <<44>> \o JoinNumbers(Tail(a))

(* JSON.stringify's quoting of one UTF-16 code unit of a string (ASCII only) *)
QuoteChar(c) ==
  IF c = QUOTE THEN <<BACKSLASH, QUOTE>>
  ELSE IF c = BACKSLASH THEN <<BACKSLASH, BACKSLASH>>
  ELSE IF c = 8 THEN <<BACKSLASH, 98>>
  ELSE IF c = 9 THEN <<BACKSLASH, 116>>
  ELSE IF c = 10 THEN <<BACKSLASH, 110>>
  ELSE IF c = 12 THEN <<BACKSLASH, 102>>
  ELSE IF c = 13 THEN <<BACKSLASH, 114>>
  ELSE IF c < 32 THEN <<BACKSLASH, 117, 48, 48, HexDigit(c \div 16), HexDigit(c % 16)>>
  ELSE <<c>>

RECURSIVE QuoteChars(_)
QuoteChars(s) == IF s = <<>> THEN <<>> ELSE QuoteChar(Head(s)) \o QuoteChars(Tail(s))

(* the members of an object as JSON.stringify writes them *)
RECURSIVE JoinMembers(_)
JoinMembers(ms) ==
  IF ms = <<>> THEN <<>>
  ELSE
    LET member == <<QUOTE>> \o QuoteChars(ms[1][1]) \o <<QUOTE, 58>> \o Digits(ms[1][2]) IN
    IF Len(ms) = 1 THEN member ELSE member \o <<44>> \o JoinMembers(Tail(ms))

(* TextEncoder.encode(JSON.stringify(x)) for the values of the model *)
JSONStringify(x) ==
  CASE x.k = "num" -> Digits(x.v[1])
    [] x.k = "str" -> <<QUOTE>> \o QuoteChars(x.v) \o <<QUOTE>>
    [] x.k = "arr" -> <<91>> \o JoinNumbers(x.v) \o <<93>>
    [] x.k = "bool" -> IF x.v[1] = 1 THEN TextTrue ELSE TextFalse
    [] x.k = "null" -> TextNull
    [] x.k = "obj" -> <<123>> \o JoinMembers(x.v) \o <<125>>

IsDigit(c) == c >= 48 /\ c <= 57
HexValue(c) ==
  IF c >= 48 /\ c <= 57 THEN c - 48
  ELSE IF c >= 97 /\ c <= 102 THEN c - 87
  ELSE IF c >= 65 /\ c <= 70 THEN c - 55
  ELSE -1

ParseFail == [ok |-> FALSE, value |-> NullValue]
ParseOk(x) == [ok |-> TRUE, value |-> x]

(* a JSON number of the model: a non-empty run of digits without a leading zero *)
RECURSIVE ParseDigits(_, _)
ParseDigits(t, acc) ==
  IF t = <<>> THEN acc
  ELSE IF ~IsDigit(Head(t)) THEN -1
  ELSE ParseDigits(Tail(t), acc * 10 + (Head(t) - 48))

ParseNumber(t) ==
  IF t = <<>> \/ (Len(t) > 1 /\ t[1] = 48) THEN -1 ELSE ParseDigits(t, 0)

(* the characters between the quotes of a JSON string; <<-1>> on a syntax error *)
RECURSIVE ParseChars(_)
ParseChars(t) ==
  IF t = <<>> THEN <<>>
  ELSE IF Head(t) = QUOTE \/ Head(t) < 32 THEN <<-1>>
  ELSE IF Head(t) # BACKSLASH THEN
    LET rest == ParseChars(Tail(t)) IN
    IF rest = <<-1>> THEN rest ELSE <<Head(t)>> \o rest
  ELSE IF Len(t) < 2 THEN <<-1>>
  ELSE
    LET e == t[2]
        simple == CASE e = QUOTE -> QUOTE
                    [] e = BACKSLASH -> BACKSLASH
                    [] e = 47 -> 47
                    [] e = 98 -> 8
                    [] e = 116 -> 9
                    [] e = 110 -> 10
                    [] e = 102 -> 12
                    [] e = 114 -> 13
                    [] OTHER -> -1
    IN
    IF e = 117 THEN
      IF Len(t) < 6 \/ \E j \in 3 .. 6 : HexValue(t[j]) < 0 THEN <<-1>>
      ELSE
        LET code == ((HexValue(t[3]) * 16 + HexValue(t[4])) * 16 + HexValue(t[5])) * 16
                    + HexValue(t[6])
            rest == ParseChars(SubSeq(t, 7, Len(t)))
        IN IF rest = <<-1>> THEN rest ELSE <<code>> \o rest
    ELSE IF simple < 0 THEN <<-1>>
    ELSE
      LET rest == ParseChars(SubSeq(t, 3, Len(t))) IN
      IF rest = <<-1>> THEN rest ELSE <<simple>> \o rest

(* the elements of a JSON array of numbers; <<-1>> on a syntax error *)
RECURSIVE ParseElements(_, _)
ParseElements(t, cur) ==
  IF t = <<>> THEN
    IF ParseNumber(cur) < 0 THEN <<-1>> ELSE <<ParseNumber(cur)>>
  ELSE IF Head(t) = 44 THEN
    LET rest == ParseElements(Tail(t), <<>>) IN
    IF ParseNumber(cur) < 0 \/ rest = <<-1>> THEN <<-1>>
    ELSE <<ParseNumber(cur)>> \o rest
  ELSE ParseElements(Tail(t), Append(cur, Head(t)))

(* the index of the quote that closes the JSON string whose characters start
   at j, 0 when there is none *)
RECURSIVE StringEnd(_, _)
StringEnd(t, j) ==
  IF j > Len(t) THEN 0
  ELSE IF t[j] = BACKSLASH THEN StringEnd(t, j + 2)
  ELSE IF t[j] = QUOTE THEN j
  ELSE StringEnd(t, j + 1)

(* the index of the first comma at or after j, Len(t) + 1 when there is none *)
RECURSIVE NextComma(_, _)
NextComma(t, j) ==
  IF j > Len(t) \/ t[j] = 44 THEN j ELSE NextComma(t, j + 1)

(* a member in front of the members that follow it: a key that occurs again
   keeps its place and takes the later value *)
PutMember(key, n, rest) ==
  IF \E j \in 1 .. Len(rest) : rest[j][1] = key
  THEN LET j == CHOOSE j \in 1 .. Len(rest) : rest[j][1] = key IN
       << <<key, rest[j][2]>> >> \o SubSeq(rest, 1, j - 1) \o SubSeq(rest, j + 1, Len(rest))
  ELSE << <<key, n>> >> \o rest

(* the members between the braces of a JSON object whose values are numbers;
   MemberError on a syntax error *)
MemberError == << <<(<<>>), -1>> >>

RECURSIVE ParseMembers(_)
ParseMembers(t) ==
  IF Len(t) < 2 \/ t[1] # QUOTE THEN MemberError
  ELSE
    LET q == StringEnd(t, 2) IN
    IF q = 0 \/ q + 1 > Len(t) \/ t[q + 1] # 58 THEN MemberError
    ELSE
      LET key == ParseChars(SubSeq(t, 2, q - 1))
          c == NextComma(t, q + 2)
          n == ParseNumber(SubSeq(t, q + 2, c - 1))
      IN
      IF key = <<-1>> \/ n < 0 THEN MemberError
      ELSE IF c > Len(t) THEN << <<key, n>> >>
      ELSE
        LET rest == ParseMembers(SubSeq(t, c + 1, Len(t))) IN
        IF rest = MemberError THEN rest ELSE PutMember(key, n, rest)

(* JSON.parse(TextDecoder.decode(t)) for ASCII text: ok = FALSE is a SyntaxError *)
JSONParse(t) ==
  IF t = TextNull THEN ParseOk(NullValue)
  ELSE IF t = TextTrue THEN ParseOk(Bool(TRUE))
  ELSE IF t = TextFalse THEN ParseOk(Bool(FALSE))
  ELSE IF t # <<>> /\ IsDigit(t[1]) THEN
    IF ParseNumber(t) < 0 THEN ParseFail ELSE ParseOk(Num(ParseNumber(t)))
  ELSE IF Len(t) >= 2 /\ t[1] = QUOTE /\ t[Len(t)] = QUOTE THEN
    LET cs == ParseChars(SubSeq(t, 2, Len(t) - 1)) IN
    IF cs = <<-1>> THEN ParseFail ELSE ParseOk(Str(cs))
  ELSE IF Len(t) >= 2 /\ t[1] = 91 /\ t[Len(t)] = 93 THEN
    IF Len(t) = 2 THEN ParseOk(Arr(<<>>))
    ELSE
      LET es == ParseElements(SubSeq(t, 2, Len(t) - 1), <<>>) IN
      IF es = <<-1>> THEN ParseFail ELSE ParseOk(Arr(es))
  ELSE IF Len(t) >= 2 /\ t[1] = 123 /\ t[Len(t)] = 125 THEN
    IF Len(t) = 2 THEN ParseOk(Obj(<<>>))
    ELSE
      LET ms == ParseMembers(SubSeq(t, 2, Len(t) - 1)) IN
      IF ms = MemberError THEN ParseFail ELSE ParseOk(Obj(ms))
  ELSE ParseFail

(***************************************************************************)
(* helpers.ts                                                              *)
(***************************************************************************)
BoolToNumber(b) == IF b THEN 1 ELSE 0

(* headerToArray without the check of the id *)
headerToArrayUnchecked(header) ==
  [ok |-> TRUE,
   bytes |-> <<START_OF_HEADING,
               (header.id + NUMBER_OFFSET) % 256,
               (BoolToNumber(header.end) + NUMBER_OFFSET) % 256,
               (BoolToNumber(header.dataIsRaw) + NUMBER_OFFSET) % 256>>]

(* headerToArray: ok = FALSE when it throws *)
headerToArray(header) ==
  IF header.id > MAX_UINT8 \/ header.id < 0
  THEN [ok |-> FALSE, bytes |-> <<>>]
  ELSE [ok |-> TRUE,
        bytes |-> <<START_OF_HEADING,
                    (header.id + NUMBER_OFFSET) % 256,
                    (BoolToNumber(header.end) + NUMBER_OFFSET) % 256,
                    (BoolToNumber(header.dataIsRaw) + NUMBER_OFFSET) % 256>>]

NoHeader == [id |-> -1, end |-> FALSE, dataIsRaw |-> FALSE]

(* arrayToHeader reading the flags without their offset *)
arrayToHeaderNoOffset(array) ==
  IF Len(array) < HEADER_LENGTH THEN [ok |-> FALSE, header |-> NoHeader]
  ELSE IF array[1] # START_OF_HEADING THEN [ok |-> FALSE, header |-> NoHeader]
  ELSE [ok |-> TRUE,
        header |-> [id |-> array[2] - NUMBER_OFFSET,
                    end |-> array[3] # 0,
                    dataIsRaw |-> array[4] # 0]]

(* arrayToHeader: ok = FALSE when it throws *)
arrayToHeader(array) ==
  IF Len(array) < HEADER_LENGTH THEN [ok |-> FALSE, header |-> NoHeader]
  ELSE IF array[1] # START_OF_HEADING THEN [ok |-> FALSE, header |-> NoHeader]
  ELSE [ok |-> TRUE,
        header |-> [id |-> array[2] - NUMBER_OFFSET,
                    end |-> (array[3] - NUMBER_OFFSET) # 0,
                    dataIsRaw |-> (array[4] - NUMBER_OFFSET) # 0]]

(* a serializeData that passes the bytes of a Uint8Array through as they are *)
serializeDataRawBytes(value) ==
  IF value.k = "raw" THEN [data |-> value.v, isRaw |-> TRUE]
  ELSE [data |-> JSONStringify(value), isRaw |-> FALSE]

(* serializeData: a Uint8Array is turned into an array of numbers and marked raw *)
serializeData(value) ==
  LET isRaw == value.k = "raw"
      decodedValue == IF isRaw THEN Arr(value.v) ELSE value
  IN [data |-> JSONStringify(decodedValue), isRaw |-> isRaw]

(* new Uint8Array(x): an array gives its elements modulo 256, a non-negative
   number n gives n zero bytes, anything else gives no bytes *)
ToUint8Array(x) ==
  CASE x.k = "arr" -> Raw([j \in 1 .. Len(x.v) |-> x.v[j] % 256])
    [] x.k = "raw" -> x
    [] x.k = "num" -> Raw([j \in 1 .. x.v[1] |-> 0])
    [] OTHER -> Raw(<<>>)

(* deserializeData returning the parsed value whatever isRaw says *)
deserializeDataIgnoringRaw(data, isRaw) == JSONParse(data)

(* deserializeData: ok = FALSE when JSON.parse throws *)
deserializeData(data, isRaw) ==
  LET decodedValue == JSONParse(data) IN
  IF ~decodedValue.ok THEN ParseFail
  ELSE IF isRaw THEN ParseOk(ToUint8Array(decodedValue.value))
  ELSE decodedValue

(***************************************************************************)
(* State.                                                                  *)
(***************************************************************************)
VARIABLES
  srcData,       \* source i: the values it emits, in order
  srcFate,       \* source i after its last value: "close", "error" or "hang"
  srcPos,        \* source i: number of values handed to resolved reads
  srcState,      \* source i: "readable", "closed" or "errored"
  handlerReason, \* source i: the reason its cancel handler was invoked with
  readerCancel,  \* reader i: the reason reader.cancel was called with
  locked,        \* reader i still holds the lock of its stream
  inflight,      \* reader i: number of unresolved reader.read() promises
  readerById,    \* muxer: id -> [busy, end]
  lastReaderId,  \* muxer: NullId or the id selected last
  ctrl,          \* controller of the muxed output stream
  unhandled,     \* errors thrown in the un-awaited read handlers
  enqueued,      \* id -> the chunks controller.enqueue accepted for it, in order
  consumer,      \* reader of the muxed output (the pipe into the demuxer)
  cancelReason,  \* the reason the consumer cancelled with
  cancelOp,      \* the consumer's cancel: whether its promise has resolved, and the
                 \* readers whose reader.cancel promise has not settled
  demuxed,       \* demuxer: id -> [queue, state] of the output stream
  sink,          \* the demuxer's WritableStream: "writable", "closed" or "errored"
  streams,       \* the argument muxer is called with
  ctor,          \* the call muxer(streams): [state, error]
  wire,          \* transport: the frames enqueued by the muxer and not yet delivered
  transport,     \* transport: its state and the shapes of the chunks it delivered
                 \* (cut inside a frame, empty, malformed for the demuxer)
  reference,     \* a demuxer that is written every frame as a chunk of its own
  codec,         \* the codec functions of helpers.ts applied to one input
  demuxArgs,     \* the arguments demuxer is called with: [stream, numberOfStreams]
  demuxCtor,     \* the call demuxer(stream, numberOfStreams): [state, error]
  waited         \* reader i: the scheduling cycles in a row that selected another
                 \* reader while it was neither ended nor busy

cancelVars == <<cancelReason, cancelOp>>
muxVars == <<srcData, srcFate, srcPos, srcState, handlerReason, readerCancel, locked,
             inflight, readerById, lastReaderId, ctrl, unhandled, enqueued, consumer,
             cancelVars, waited>>
demuxVars == <<demuxed, sink>>
argVars == <<streams, ctor>>
wireVars == <<wire, transport, reference>>
codecVars == <<codec>>
demuxArgVars == <<demuxArgs, demuxCtor>>
sideVars == <<codecVars, demuxArgVars>>
vars == <<muxVars, demuxVars, argVars, wireVars, sideVars>>

Streams == DOMAIN srcData

NullId == -1
NoReason == "<none>"
NoCancel == [completed |-> FALSE, pending |-> {}]
Undefined == "undefined"
SourceError == "e"
Reasons == {"r", Undefined}

(* the values of source i: a prefix of the catalog rotated by i; with three
   sources of at most two values, source 1 emits an array and then a
   Uint8Array *)
Catalog ==
  <<Num(12), Str(<<97>>), NullValue, Arr(<<1, 2>>), Raw(<<12, 1, 255>>), Bool(TRUE),
    Str(<<1, 34>>), Num(0)>>
CatalogValue(i, j) == Catalog[((3 * i + j - 1) % Len(Catalog)) + 1]
SourceValues(i, len) == [j \in 1 .. len |-> CatalogValue(i, j)]

(***************************************************************************)
(* The muxed output stream's controller (ReadableStreamDefaultController). *)
(* The operators below take and return the record m of everything a        *)
(* synchronous run of muxer code can change.                               *)
(***************************************************************************)
CanCloseOrEnqueue(c) == c.state = "readable" /\ ~c.closeRequested

DesiredSizeIsNull(c) == c.state = "errored"
DesiredSize(c) == IF c.state = "closed" THEN 0 ELSE HighWaterMark - Len(c.queue)

(* downstreamIsReady: throws on null *)
downstreamIsReady(c) ==
  [threw |-> DesiredSizeIsNull(c), ready |-> ~DesiredSizeIsNull(c) /\ DesiredSize(c) > 0]

(* controller.close() *)
ControllerClose(m) ==
  IF ~CanCloseOrEnqueue(m.ctrl) THEN [m EXCEPT !.thrown = "TypeError: close"]
  ELSE IF m.ctrl.queue # <<>> THEN [m EXCEPT !.ctrl.closeRequested = TRUE]
  ELSE [m EXCEPT !.ctrl.closeRequested = TRUE,
                 !.ctrl.state = "closed",
                 !.ctrl.readRequests = 0,
                 !.consumer = IF m.ctrl.readRequests > 0 THEN "done" ELSE @]

(* controller.error(e) *)
ControllerError(m, e) ==
  IF m.ctrl.state # "readable" THEN m
  ELSE [m EXCEPT !.ctrl.queue = <<>>,
                 !.ctrl.state = "errored",
                 !.ctrl.storedError = e,
                 !.ctrl.readRequests = 0,
                 !.consumer = IF m.ctrl.readRequests > 0 THEN "errored" ELSE @]

(***************************************************************************)
(* muxer.ts                                                                *)
(***************************************************************************)
AllDone == [kind |-> "all-done", id |-> NullId]
AllBusy == [kind |-> "all-busy", id |-> NullId]
Selected(id) == [kind |-> "reader", id |-> id]

(* a variant of getNextReader whose candidates include the ended readers *)
getNextReaderIgnoringEnd(rById, last) ==
  LET readers == DOMAIN rById
      minimumNextId == (last + 1) % Cardinality(readers)
      candidates == {c \in readers : ~rById[c].busy /\ c >= minimumNextId}
      min(S) == CHOOSE x \in S : \A y \in S : x <= y
  IN IF candidates # {} THEN Selected(min(candidates))
     ELSE IF ~rById[last].end /\ ~rById[last].busy THEN Selected(last)
     ELSE IF \A r \in readers : rById[r].end THEN AllDone
     ELSE AllBusy

(* a variant of getNextReader that answers 'all-done' as soon as the reader
   selected last is ended and no reader after it can be selected *)
getNextReaderDoneWhenLastEnded(rById, last) ==
  LET readers == DOMAIN rById
      minimumNextId == (last + 1) % Cardinality(readers)
      candidates == {c \in readers : ~rById[c].end /\ ~rById[c].busy /\ c >= minimumNextId}
      min(S) == CHOOSE x \in S : \A y \in S : x <= y
  IN IF candidates # {} THEN Selected(min(candidates))
     ELSE IF ~rById[last].end /\ ~rById[last].busy THEN Selected(last)
     ELSE IF rById[last].end THEN AllDone
     ELSE AllBusy

getNextReader(rById, last) ==
  LET readers == DOMAIN rById
      minimumNextId == (last + 1) % Cardinality(readers)
      candidates == {c \in readers : ~rById[c].end /\ ~rById[c].busy /\ c >= minimumNextId}
      min(S) == CHOOSE x \in S : \A y \in S : x <= y
  IN IF candidates # {} THEN Selected(min(candidates))
     ELSE IF ~rById[last].end /\ ~rById[last].busy THEN Selected(last)
     ELSE IF \A r \in readers : rById[r].end THEN AllDone
     ELSE AllBusy

(* serializeChunk writing dataIsRaw = false into every header *)
serializeChunkNeverRaw(id, end, value) ==
  LET sd == serializeData(value)
      header == headerToArray([id |-> id, end |-> end, dataIsRaw |-> FALSE])
  IN IF Len(sd.data) = 0 THEN [threw |-> FALSE, null |-> TRUE, bytes |-> <<>>]
     ELSE IF ~header.ok THEN [threw |-> TRUE, null |-> FALSE, bytes |-> <<>>]
     ELSE [threw |-> FALSE, null |-> FALSE, bytes |-> header.bytes \o sd.data]

(* serializeChunk: null = TRUE for an empty payload, threw = TRUE when
   headerToArray throws *)
serializeChunk(id, end, value) ==
  LET sd == serializeData(value)
      header == headerToArray([id |-> id, end |-> end, dataIsRaw |-> sd.isRaw])
  IN IF Len(sd.data) = 0 THEN [threw |-> FALSE, null |-> TRUE, bytes |-> <<>>]
     ELSE IF ~header.ok THEN [threw |-> TRUE, null |-> FALSE, bytes |-> <<>>]
     ELSE [threw |-> FALSE, null |-> FALSE, bytes |-> header.bytes \o sd.data]

EndOfTransmission == Str(<<4>>)

(* the error headerToArray throws *)
StreamIdError == "Error: stream 'id' must be a number between 0 and 250"

(* the synchronous start of the un-awaited read handler: busy, then reader.read() *)
StartRead(m, id) ==
  IF m.locked[id]
  THEN [m EXCEPT !.readerById[id].busy = TRUE, !.inflight[id] = @ + 1]
  ELSE [m EXCEPT !.readerById[id].busy = TRUE,
                 !.unhandled = @ \cup {"TypeError: read on a released reader"}]

(* a reader that attemptNextRead may select: neither ended nor busy *)
Available(rById, i) == i \in DOMAIN rById /\ ~rById[i].end /\ ~rById[i].busy

(* the count of passed-over cycles after a cycle that selected id *)
PassedOver(m, id) ==
  [i \in DOMAIN m.waited |->
     IF i = id \/ ~Available(m.readerById, i) THEN 0
     ELSE IF m.waited[i] < MaxWait THEN m.waited[i] + 1
     ELSE m.waited[i]]

attemptNextRead(m) ==
  LET currentReader == IF m.lastReaderId = NullId THEN Selected(0)
                       ELSE getNextReader(m.readerById, m.lastReaderId)
  IN CASE currentReader.kind = "all-done" -> ControllerClose(m)
       [] currentReader.kind = "all-busy" -> m
       [] OTHER -> StartRead([m EXCEPT !.lastReaderId = currentReader.id,
                                       !.waited = PassedOver(m, currentReader.id)],
                             currentReader.id)

(* a variant of pull that starts a scheduling cycle without asking whether
   the consumer is ready *)
pullUnguarded(m) ==
  LET after == IF DesiredSizeIsNull(m.ctrl) THEN [m EXCEPT !.thrown = "Error: desiredSize null"]
               ELSE attemptNextRead(m)
  IN [after EXCEPT !.thrown = "", !.ctrl.pullFailed = (after.thrown # "")]

(* the body of pull(controller); a throw rejects the promise pull returns *)
pull(m) ==
  LET ready == downstreamIsReady(m.ctrl)
      after == IF ready.threw THEN [m EXCEPT !.thrown = "Error: desiredSize null"]
               ELSE IF ready.ready THEN attemptNextRead(m)
               ELSE m
  IN [after EXCEPT !.thrown = "", !.ctrl.pullFailed = (after.thrown # "")]

(* ReadableStreamDefaultControllerCallPullIfNeeded *)
CallPullIfNeeded(m) ==
  LET c == m.ctrl
      shouldPull == /\ CanCloseOrEnqueue(c)
                    /\ c.started
                    /\ (c.readRequests > 0 \/ DesiredSize(c) > 0)
  IN IF ~shouldPull THEN m
     ELSE IF c.pulling THEN [m EXCEPT !.ctrl.pullAgain = TRUE]
     ELSE pull([m EXCEPT !.ctrl.pulling = TRUE])

(* controller.enqueue(chunk) *)
ControllerEnqueue(m, chunk) ==
  IF ~CanCloseOrEnqueue(m.ctrl) THEN [m EXCEPT !.thrown = "TypeError: enqueue"]
  ELSE
    LET put == IF m.ctrl.readRequests > 0
               THEN [m EXCEPT !.ctrl.readRequests = @ - 1, !.handed = Append(@, chunk)]
               ELSE [m EXCEPT !.ctrl.queue = Append(@, chunk)]
        id == arrayToHeader(chunk).header.id
    IN CallPullIfNeeded([put EXCEPT !.enqueued[id] = Append(@, chunk)])

(***************************************************************************)
(* demuxer.ts                                                              *)
(***************************************************************************)
(* getMuxedChunks: the bytes of one incoming chunk, split at every 0x01;
   threw = TRUE when a byte comes before any 0x01 *)
RECURSIVE ScanBytes(_, _, _)
ScanBytes(chunk, muxedChunks, headerBytesRemaining) ==
  IF chunk = <<>> THEN [threw |-> FALSE, chunks |-> muxedChunks]
  ELSE
    LET byte == Head(chunk)
        last == Len(muxedChunks)
    IN IF byte = START_OF_HEADING
       THEN ScanBytes(Tail(chunk), Append(muxedChunks, <<byte>>), HEADER_LENGTH)
       ELSE IF last = 0 THEN [threw |-> TRUE, chunks |-> muxedChunks]
       ELSE IF headerBytesRemaining > 0
       THEN ScanBytes(Tail(chunk),
                      [muxedChunks EXCEPT ![last] = Append(@, byte)],
                      headerBytesRemaining - 1)
       ELSE ScanBytes(Tail(chunk),
                      [muxedChunks EXCEPT ![last] = Append(@, byte)],
                      headerBytesRemaining)

(* a variant that takes every chunk for one frame *)
getMuxedChunksWhole(chunk) ==
  [threw |-> FALSE, chunks |-> IF chunk = <<>> THEN <<>> ELSE <<chunk>>]

getMuxedChunks(chunk) == ScanBytes(chunk, <<>>, 0)

(* a chunk that write() finds malformed: getMuxedChunks throws on a byte that
   comes before any 0x01, or arrayToHeader is given a frame of fewer than
   HEADER_LENGTH bytes *)
Malformed(chunk) ==
  LET split == getMuxedChunks(chunk)
  IN \/ split.threw
     \/ \E j \in 1 .. Len(split.chunks) : Len(split.chunks[j]) < HEADER_LENGTH

(* a variant of the body that enqueues the payload of a terminal frame
   before it closes the output *)
DemuxFrameDeliveringSentinel(d, muxedChunk) ==
  LET h == arrayToHeader(muxedChunk)
      header == h.header
      fail == [d EXCEPT !.sink = "errored"]
      data == SubSeq(muxedChunk, HEADER_LENGTH + 1, Len(muxedChunk))
      r == deserializeData(data, header.dataIsRaw)
  IN IF d.sink # "writable" THEN d
     ELSE IF ~h.ok THEN fail
     ELSE IF header.id \notin DOMAIN d.demuxed THEN fail
     ELSE IF d.demuxed[header.id].state # "readable" THEN fail
     ELSE IF ~r.ok THEN fail
     ELSE IF header.end THEN [d EXCEPT !.demuxed[header.id].queue = Append(@, r.value),
                                       !.demuxed[header.id].state = "closed"]
     ELSE [d EXCEPT !.demuxed[header.id].queue = Append(@, r.value)]

(* the body of muxedChunks.forEach in write(): d = [demuxed, sink]; a throw
   rejects write() and the WritableStream becomes errored *)
DemuxFrame(d, muxedChunk) ==
  LET h == arrayToHeader(muxedChunk)
      header == h.header
      fail == [d EXCEPT !.sink = "errored"]
  IN IF d.sink # "writable" THEN d
     ELSE IF ~h.ok THEN fail
     ELSE IF header.id \notin DOMAIN d.demuxed THEN fail
     ELSE IF d.demuxed[header.id].state # "readable" THEN fail
     ELSE IF header.end THEN [d EXCEPT !.demuxed[header.id].state = "closed"]
     ELSE
       LET data == SubSeq(muxedChunk, HEADER_LENGTH + 1, Len(muxedChunk))
           r == deserializeData(data, header.dataIsRaw)
       IN IF ~r.ok THEN fail
          ELSE [d EXCEPT !.demuxed[header.id].queue = Append(@, r.value)]

RECURSIVE DemuxFrames(_, _)
DemuxFrames(d, muxedChunks) ==
  IF muxedChunks = <<>> THEN d
  ELSE DemuxFrames(DemuxFrame(d, Head(muxedChunks)), Tail(muxedChunks))

(* write(chunk) of the demuxer's WritableStream *)
DemuxWrite(d, chunk) ==
  LET split == getMuxedChunks(chunk)
      done == DemuxFrames(d, split.chunks)
  IN IF d.sink # "writable" THEN d
     ELSE IF split.threw THEN [d EXCEPT !.sink = "errored"]
     ELSE done

(* abort(error) erroring the outputs with the error as it came *)
DemuxAbortUnformatted(d, error) ==
  [d EXCEPT !.demuxed =
     [i \in DOMAIN d.demuxed |->
        IF d.demuxed[i].state = "readable"
        THEN [d.demuxed[i] EXCEPT !.state = "errored", !.error = error]
        ELSE d.demuxed[i]]]

(* abort(error) of the demuxer's WritableStream: controller.error on every
   output; it has no effect on an output that is closed or errored *)
DemuxAbort(d, error) ==
  [d EXCEPT !.demuxed =
     [i \in DOMAIN d.demuxed |->
        IF d.demuxed[i].state = "readable"
        THEN [d.demuxed[i] EXCEPT !.state = "errored",
                                  !.error = "The demuxer stream was aborted: " \o error]
        ELSE d.demuxed[i]]]

(* a variant of close() that closes every output that is still open *)
DemuxCloseClosingOutputs(d) ==
  [d EXCEPT !.sink = "closed",
            !.demuxed = [i \in DOMAIN d.demuxed |->
                           IF d.demuxed[i].state = "readable"
                           THEN [d.demuxed[i] EXCEPT !.state = "closed"]
                           ELSE d.demuxed[i]]]

(* close() of the demuxer's WritableStream: its body is empty, so the sink
   becomes closed and no output is touched *)
DemuxClose(d) == [d EXCEPT !.sink = "closed"]

RECURSIVE PipeChunks(_, _)
PipeChunks(d, chunks) ==
  IF chunks = <<>> THEN d ELSE PipeChunks(DemuxWrite(d, Head(chunks)), Tail(chunks))

(* the registry with the controller of the last stream missing *)
NewOutputsButLast(numberOfStreams) ==
  [i \in 0 .. (numberOfStreams - 2) |-> [queue |-> <<>>, state |-> "readable", error |-> ""]]

(* demuxer(stream, numberOfStreams): the controllers registered by start() *)
NewOutputs(numberOfStreams) ==
  [i \in 0 .. (numberOfStreams - 1) |-> [queue |-> <<>>, state |-> "readable", error |-> ""]]

(***************************************************************************)
(* The state machine of muxer -> pipeTo -> demuxer.                        *)
(***************************************************************************)
M == [readerById |-> readerById, inflight |-> inflight, locked |-> locked,
      lastReaderId |-> lastReaderId, ctrl |-> ctrl, unhandled |-> unhandled,
      enqueued |-> enqueued, consumer |-> consumer, waited |-> waited, handed |-> <<>>,
      thrown |-> ""]

(* the end of a synchronous run: the chunks handed to the pipe are written to
   the demuxer's sink; a failed write leaves the pipe shut down *)
Commit(m0) ==
  \E m \in {m0} :
  \E d \in {PipeChunks([demuxed |-> demuxed, sink |-> sink], m.handed)} :
  /\ readerById' = m.readerById
  /\ inflight' = m.inflight
  /\ locked' = m.locked
  /\ lastReaderId' = m.lastReaderId
  /\ ctrl' = m.ctrl
  /\ unhandled' = m.unhandled
  /\ enqueued' = m.enqueued
  /\ waited' = m.waited
  /\ consumer' = IF d.sink = "errored" /\ m.consumer = "reading" THEN "sinkfailed"
                 ELSE m.consumer
  /\ demuxed' = d.demuxed
  /\ sink' = d.sink

(* what muxer can be called with: an array of streams and other things, or
   something that is not an array *)
ArrayOf(elems) == [kind |-> "array", elems |-> elems]
ArrayOfStreams(n) == ArrayOf([j \in 1 .. n |-> "stream"])
NotAnArray(kind) == [kind |-> kind, elems |-> <<>>]

Pending == [state |-> "pending", error |-> ""]
Returned == [state |-> "returned", error |-> ""]
Threw(error) == [state |-> "threw", error |-> error]

(* the muxed stream is piped straight into the demuxer: no transport between *)
Direct == [state |-> "none", fragmented |-> FALSE, empty |-> FALSE, chunks |-> 0,
           malformed |-> FALSE]

RECURSIVE SumTo(_, _)
SumTo(f, i) == IF i < 0 THEN 0 ELSE f[i] + SumTo(f, i - 1)

Fates == {"close", "error", "hang"}

(* how many values each source emits *)
SourceLengths == {l \in [Ids -> 0 .. MaxLen] : SumTo(l, NumStreams - 1) <= MaxTotal}
NoValues == {[i \in Ids |-> 0]}

(* a number as the code tests it: typeof, isNaN, and its value in tenths *)
Number(n) == [type |-> "number", nan |-> FALSE, tenths |-> 10 * n]

(* no codec function has been applied *)
CodecIdle ==
  [stage |-> "idle", subject |-> "none", header |-> NoHeader, array |-> <<>>,
   window |-> [byteOffset |-> 0, length |-> 0], value |-> NullValue, data |-> <<>>, isRaw |-> FALSE, threw |-> FALSE,
   decodedHeader |-> NoHeader, decodedValue |-> NullValue]

(* the state after muxer(streams) has been called on sources that emit
   lengths values and whose fates are drawn from fates, with transport tr
   behind its output *)
InitMuxer(lengths, fates, tr) ==
  /\ \E lens \in lengths : srcData = [i \in Ids |-> SourceValues(i, lens[i])]
  /\ srcFate \in fates
  /\ srcPos = [i \in Ids |-> 0]
  /\ srcState = [i \in Ids |-> "readable"]
  /\ handlerReason = [i \in Ids |-> NoReason]
  /\ readerCancel = [i \in Ids |-> NoReason]
  /\ locked = [i \in Ids |-> TRUE]
  /\ inflight = [i \in Ids |-> 0]
  /\ readerById = [i \in Ids |-> [busy |-> FALSE, end |-> FALSE]]
  /\ lastReaderId = NullId
  /\ ctrl = [queue |-> <<>>, readRequests |-> 0, pulling |-> FALSE, pullAgain |-> FALSE,
             pullFailed |-> FALSE, state |-> "readable", closeRequested |-> FALSE,
             storedError |-> "", started |-> FALSE]
  /\ unhandled = {}
  /\ enqueued = [i \in Ids |-> <<>>]
  /\ consumer = "reading"
  /\ cancelReason = NoReason
  /\ cancelOp = NoCancel
  /\ streams = ArrayOfStreams(NumStreams)
  /\ ctor = Returned
  /\ wire = <<>>
  /\ transport = tr
  /\ waited = [i \in Ids |-> 0]

(* the state after demuxer(muxed, NumStreams) has been called *)
InitDemuxer ==
  /\ demuxArgs = [stream |-> "ReadableStream", numberOfStreams |-> Number(NumStreams)]
  /\ demuxCtor = Returned
  /\ demuxed = NewOutputs(NumStreams)
  /\ sink = "writable"
  /\ reference = [demuxed |-> NewOutputs(NumStreams), sink |-> "writable"]

(* the state after muxer(streams) and demuxer(muxed, NumStreams) have been
   called on sources whose fates are drawn from fates, with transport tr
   between the two *)
InitWith(fates, tr) ==
  /\ InitMuxer(SourceLengths, fates, tr)
  /\ InitDemuxer
  /\ codec = CodecIdle

Init ==
  InitWith({f \in [Ids -> Fates] : Cardinality({i \in Ids : f[i] # "close"}) <= 1}, Direct)

srcUnchanged == UNCHANGED <<sideVars, srcData, srcFate, srcPos, srcState, handlerReason, readerCancel,
                            cancelVars, argVars, wireVars>>

(* the stream's start step has settled: the first pull *)
Start ==
  /\ ctor.state = "returned"
  /\ ~ctrl.started
  /\ Commit(CallPullIfNeeded([M EXCEPT !.ctrl.started = TRUE]))
  /\ srcUnchanged

(* the promise returned by pull() settles *)
PullSettled ==
  /\ ctrl.pulling
  /\ LET m1 == [M EXCEPT !.ctrl.pulling = FALSE, !.ctrl.pullAgain = FALSE,
                         !.ctrl.pullFailed = FALSE]
     IN IF ctrl.pullFailed THEN Commit(ControllerError(m1, "pull rejected"))
        ELSE IF ctrl.pullAgain THEN Commit(CallPullIfNeeded(m1))
        ELSE Commit(m1)
  /\ srcUnchanged

(* the pipe reads the muxed output: reader.read() *)
ConsumerRead ==
  /\ consumer = "reading"
  /\ ctrl.readRequests = 0
  /\ srcUnchanged
  /\ IF ctrl.state = "errored" THEN Commit([M EXCEPT !.consumer = "errored"])
     ELSE IF ctrl.queue # <<>> THEN
       LET m1 == [M EXCEPT !.ctrl.queue = Tail(@), !.handed = <<Head(ctrl.queue)>>]
       IN IF ctrl.closeRequested /\ Len(ctrl.queue) = 1
          THEN Commit([m1 EXCEPT !.ctrl.state = "closed"])
          ELSE Commit(CallPullIfNeeded(m1))
     ELSE IF ctrl.state = "closed" THEN Commit([M EXCEPT !.consumer = "done"])
     ELSE Commit(CallPullIfNeeded([M EXCEPT !.ctrl.readRequests = 1]))

(* source i closes or errors once all its values have been read *)
SourceEnd(i) ==
  /\ srcState[i] = "readable"
  /\ srcPos[i] = Len(srcData[i])
  /\ srcFate[i] # "hang"
  /\ srcState' = [srcState EXCEPT ![i] = IF srcFate[i] = "close" THEN "closed" ELSE "errored"]
  /\ UNCHANGED <<sideVars, srcData, srcFate, srcPos, handlerReason, readerCancel, locked, inflight,
                 readerById, lastReaderId, ctrl, unhandled, enqueued, consumer,
                 cancelVars, waited, demuxVars, argVars, wireVars>>

(* a variant of the continuation that tags the chunk with the id selected
   last instead of the id of the reader that was read *)
ReadValueTaggedLast(m, id, value) ==
  LET m1 == [m EXCEPT !.readerById[id].busy = FALSE]
      byteChunk == serializeChunk(m.lastReaderId, FALSE, value)
      m2 == IF byteChunk.threw THEN [m1 EXCEPT !.thrown = StreamIdError]
            ELSE IF byteChunk.null THEN m1
            ELSE ControllerEnqueue(m1, byteChunk.bytes)
      ready == downstreamIsReady(m2.ctrl)
  IN IF m2.thrown # "" THEN m2
     ELSE IF ready.threw THEN [m2 EXCEPT !.thrown = "Error: desiredSize null"]
     ELSE IF ready.ready THEN attemptNextRead(m2)
     ELSE m2

(* the continuation of `await reader.read()` for a read that gave a value *)
ReadValue(m, id, value) ==
  LET m1 == [m EXCEPT !.readerById[id].busy = FALSE]
      byteChunk == serializeChunk(id, FALSE, value)
      m2 == IF byteChunk.threw THEN [m1 EXCEPT !.thrown = StreamIdError]
            ELSE IF byteChunk.null THEN m1
            ELSE ControllerEnqueue(m1, byteChunk.bytes)
      ready == downstreamIsReady(m2.ctrl)
  IN IF m2.thrown # "" THEN m2
     ELSE IF ready.threw THEN [m2 EXCEPT !.thrown = "Error: desiredSize null"]
     ELSE IF ready.ready THEN attemptNextRead(m2)
     ELSE m2

(* a variant of the continuation that neither releases the lock nor marks
   the reader as ended *)
ReadDoneNotMarked(m, id) ==
  LET m1 == [m EXCEPT !.readerById[id].busy = FALSE]
      byteChunk == serializeChunk(id, TRUE, EndOfTransmission)
  IN IF byteChunk.threw THEN [m1 EXCEPT !.thrown = StreamIdError]
     ELSE ControllerEnqueue(m1, byteChunk.bytes)

(* the continuation of `await reader.read()` for a read that gave done *)
ReadDone(m, id) ==
  LET m1 == [m EXCEPT !.readerById[id].busy = FALSE]
      m2 == [m1 EXCEPT !.locked[id] = FALSE,
                       !.readerById[id] = [m1.readerById[id] EXCEPT !.end = TRUE]]
      byteChunk == serializeChunk(id, TRUE, EndOfTransmission)
  IN IF byteChunk.threw THEN [m2 EXCEPT !.thrown = StreamIdError]
     ELSE ControllerEnqueue(m2, byteChunk.bytes)

(* `await reader.read()` throws: nothing after it runs *)
ReadRejected(m, id) == [m EXCEPT !.thrown = SourceError]

(* an exception leaving the un-awaited handler is an unhandled rejection *)
Unhandled(m) ==
  IF m.thrown = "" THEN m ELSE [m EXCEPT !.unhandled = @ \cup {m.thrown}, !.thrown = ""]

(* a read in flight on source i resolves *)
ReadResolve(i) ==
  /\ inflight[i] > 0
  /\ LET m0 == [M EXCEPT !.inflight[i] = @ - 1] IN
     CASE srcState[i] = "closed" ->
            /\ Commit(Unhandled(ReadDone(m0, i)))
            /\ UNCHANGED srcPos
       [] srcState[i] = "errored" ->
            /\ Commit(Unhandled(ReadRejected(m0, i)))
            /\ UNCHANGED srcPos
       [] OTHER ->
            /\ srcPos[i] < Len(srcData[i])
            /\ Commit(Unhandled(ReadValue(m0, i, srcData[i][srcPos[i] + 1])))
            /\ srcPos' = [srcPos EXCEPT ![i] = @ + 1]
  /\ UNCHANGED <<sideVars, srcData, srcFate, srcState, handlerReason, readerCancel, cancelVars,
                 argVars, wireVars>>

(* `${reason}` in a template literal *)
TemplateString(reason) == reason

(* cancel(reason) of the muxed stream's source: the readers reader.cancel is
   called on, and the reason it is called with *)
cancelReaders == DOMAIN readerById
(* a variant that passes the reason on unformatted *)
cancelMessageBare(reason) == TemplateString(reason)
cancelMessage(reason) == "The muxer stream was canceled: " \o TemplateString(reason)

(* reader.cancel(message) reaches the source's cancel handler when the reader
   holds the lock and the source is neither closed nor errored *)
ReachesHandler(i) == i \in cancelReaders /\ locked[i] /\ srcState[i] = "readable"

(* the consumer cancels the muxed output: reader.cancel(reason); the model
   lets it cancel in the runs whose sources all close normally *)
Cancel(reason) ==
  /\ consumer = "reading"
  /\ \A i \in Streams : srcFate[i] = "close"
  /\ cancelReason' = reason
  /\ IF ctrl.state # "readable"
     THEN /\ Commit([M EXCEPT !.consumer = "canceled"])
          /\ cancelOp' = NoCancel
          /\ UNCHANGED <<srcState, handlerReason, readerCancel>>
     ELSE /\ Commit([M EXCEPT !.consumer = "canceled",
                              !.ctrl.state = "closed",
                              !.ctrl.queue = <<>>,
                              !.ctrl.readRequests = 0,
                              !.unhandled = @ \cup
                                 IF \E i \in cancelReaders : ~locked[i]
                                 THEN {"TypeError: cancel on a released reader"}
                                 ELSE {}])
          /\ readerCancel' = [i \in Streams |->
                                IF i \in cancelReaders THEN cancelMessage(reason)
                                ELSE readerCancel[i]]
          /\ cancelOp' = [completed |-> FALSE,
                          pending |-> {i \in Streams : ReachesHandler(i)}]
          /\ srcState' = [i \in Streams |-> IF ReachesHandler(i) THEN "closed" ELSE srcState[i]]
          /\ handlerReason' = [i \in Streams |->
                                 IF ReachesHandler(i) THEN cancelMessage(reason)
                                 ELSE handlerReason[i]]
  /\ UNCHANGED <<sideVars, srcData, srcFate, srcPos, argVars, wireVars>>

cancelUnchanged ==
  UNCHANGED <<sideVars, srcData, srcFate, srcPos, srcState, handlerReason, readerCancel,
              locked, inflight, readerById, lastReaderId, ctrl, unhandled, enqueued,
              consumer, cancelReason, waited, demuxVars, argVars, wireVars>>

(* the promise of the consumer's reader.cancel(reason) resolves: cancel(reason)
   of the muxed stream's source has returned undefined, so nothing but the
   return itself is waited for *)
CancelSettled ==
  /\ consumer = "canceled"
  /\ ~cancelOp.completed
  /\ cancelOp' = [cancelOp EXCEPT !.completed = TRUE]
  /\ cancelUnchanged

(* the promise returned by reader.cancel(message) on source i settles, once
   the promise of the source's own cancel handler has *)
ForwardedCancelSettled(i) ==
  /\ i \in cancelOp.pending
  /\ cancelOp' = [cancelOp EXCEPT !.pending = @ \ {i}]
  /\ cancelUnchanged

Next ==
  \/ Start
  \/ PullSettled
  \/ ConsumerRead
  \/ \E i \in Streams : SourceEnd(i)
  \/ \E i \in Streams : ReadResolve(i)
  \/ \E reason \in Reasons : Cancel(reason)

Spec == Init /\ [][Next]_vars

(***************************************************************************)
(* The muxer with a consumer that cancels, followed up to the settling of  *)
(* the promises of the cancel: the sources all close normally.             *)
(***************************************************************************)
MaxCancelTotal == 1

(* the sources emit at most MaxCancelTotal values between them *)
CancelLengths == {l \in SourceLengths : SumTo(l, NumStreams - 1) <= MaxCancelTotal}

InitCancel ==
  /\ InitMuxer(CancelLengths, {[i \in Ids |-> "close"]}, Direct)
  /\ InitDemuxer
  /\ codec = CodecIdle

NextCancel ==
  \/ Start
  \/ PullSettled
  \/ ConsumerRead
  \/ \E i \in Streams : SourceEnd(i)
  \/ \E i \in Streams : ReadResolve(i)
  \/ \E reason \in Reasons : Cancel(reason)
  \/ CancelSettled
  \/ \E i \in Streams : ForwardedCancelSettled(i)

SpecCancel == InitCancel /\ [][NextCancel]_vars

(***************************************************************************)
(* The call muxer(streams) itself, for arguments of every shape, followed  *)
(* by the run of the stream it returns.                                    *)
(***************************************************************************)
MaxStreams == 252

(* the synchronous body of muxer up to `return new ReadableStream`: what it
   throws, and the elements it has called getReader() on by then *)
muxer(arg) ==
  LET n == Len(arg.elems)
      notStreams == {j \in 1 .. n : arg.elems[j] # "stream"}
      firstBad == CHOOSE j \in notStreams : \A k \in notStreams : j <= k
  IN IF arg.kind = "array" /\ n = 0
     THEN [result |-> Threw("Error: Expected at least one stream"), acquired |-> {}]
     ELSE IF arg.kind # "array"
     THEN [result |-> Threw("TypeError: streams.forEach is not a function"),
           acquired |-> {}]
     ELSE IF notStreams # {}
     THEN [result |-> Threw("TypeError: stream.getReader is not a function"),
           acquired |-> 0 .. (firstBad - 2)]
     ELSE [result |-> Returned, acquired |-> 0 .. (n - 1)]

ArgumentShapes ==
  {ArrayOf(<<>>), NotAnArray("number"), NotAnArray("string"), ArrayOf(<<"asdf">>),
   ArrayOf(<<"stream", "asdf">>), ArrayOfStreams(1), ArrayOfStreams(2)}
  \cup {ArrayOfStreams(n) : n \in (MAX_UINT8 + 1) .. MaxStreams}

(* before the call: every stream of the argument is empty and already closed,
   and nothing holds a lock on it *)
InitArgs ==
  /\ streams \in ArgumentShapes
  /\ ctor = Pending
  /\ LET ids == 0 .. (Len(streams.elems) - 1) IN
       /\ srcData = [i \in ids |-> <<>>]
       /\ srcFate = [i \in ids |-> "close"]
       /\ srcPos = [i \in ids |-> 0]
       /\ srcState = [i \in ids |-> "closed"]
       /\ handlerReason = [i \in ids |-> NoReason]
       /\ readerCancel = [i \in ids |-> NoReason]
       /\ locked = [i \in ids |-> FALSE]
       /\ inflight = [i \in ids |-> 0]
       /\ enqueued = [i \in ids |-> <<>>]
       /\ waited = [i \in ids |-> 0]
       /\ demuxed = NewOutputs(Len(streams.elems))
       /\ reference = [demuxed |-> NewOutputs(Len(streams.elems)), sink |-> "writable"]
  /\ readerById = [i \in {} |-> [busy |-> FALSE, end |-> FALSE]]
  /\ lastReaderId = NullId
  /\ ctrl = [queue |-> <<>>, readRequests |-> 0, pulling |-> FALSE, pullAgain |-> FALSE,
             pullFailed |-> FALSE, state |-> "readable", closeRequested |-> FALSE,
             storedError |-> "", started |-> FALSE]
  /\ unhandled = {}
  /\ consumer = "reading"
  /\ cancelReason = NoReason
  /\ cancelOp = NoCancel
  /\ sink = "writable"
  /\ wire = <<>>
  /\ transport = Direct
  /\ codec = CodecIdle
  /\ demuxArgs = [stream |-> "ReadableStream",
                  numberOfStreams |-> Number(Len(streams.elems))]
  /\ demuxCtor = Returned

(* the call muxer(streams) *)
Construct ==
  /\ ctor.state = "pending"
  /\ LET call == muxer(streams) IN
       /\ ctor' = call.result
       /\ locked' = [i \in Streams |-> i \in call.acquired]
       /\ readerById' = [i \in call.acquired |-> [busy |-> FALSE, end |-> FALSE]]
  /\ UNCHANGED <<sideVars, srcData, srcFate, srcPos, srcState, handlerReason, readerCancel,
                 inflight, lastReaderId, ctrl, unhandled, enqueued, consumer,
                 cancelVars, waited, demuxVars, streams, wireVars>>

(* reads of streams that are already closed resolve in the order they were
   issued, which here is the order of the ids *)
ResolveInOrder(i) ==
  /\ inflight[i] > 0
  /\ \A j \in Streams : inflight[j] > 0 => i <= j
  /\ ReadResolve(i)

(* the sources are closed, so a read issued on one settles at once: the pipe
   asks for its next chunk when no source read is in flight *)
ReadWhenSettled ==
  /\ \A i \in Streams : inflight[i] = 0
  /\ ConsumerRead

NextArgs ==
  \/ Construct
  \/ Start
  \/ PullSettled
  \/ ReadWhenSettled
  \/ \E i \in Streams : ResolveInOrder(i)

SpecArgs == InitArgs /\ [][NextArgs]_vars

(***************************************************************************)
(* Properties of muxer -> pipeTo -> demuxer, checked under Spec.           *)
(***************************************************************************)
AllClose == \A i \in Ids : srcFate[i] = "close"

(* some step other than a cancel by the consumer can still be taken *)
StepEnabled ==
  \/ ~ctrl.started
  \/ ctrl.pulling
  \/ consumer = "reading" /\ ctrl.readRequests = 0
  \/ \E i \in Ids : srcState[i] = "readable" /\ srcPos[i] = Len(srcData[i])
                    /\ srcFate[i] # "hang"
  \/ \E i \in Ids : inflight[i] > 0
                    /\ (srcState[i] # "readable" \/ srcPos[i] < Len(srcData[i]))

(* the run is over: the consumer is still reading (or was told done) and
   nothing but its own cancel can happen any more *)
RunOver == ~StepEnabled /\ consumer \in {"reading", "done"}

IsPrefix(s, t) == Len(s) <= Len(t) /\ s = SubSeq(t, 1, Len(s))

DataFrame(i, value) == serializeChunk(i, FALSE, value).bytes
TerminalFrame(i) == serializeChunk(i, TRUE, EndOfTransmission).bytes
IsTerminal(chunk) == arrayToHeader(chunk).header.end
DataFramesOf(i) == SelectSeq(enqueued[i], LAMBDA c : ~IsTerminal(c))

(* C1 (as claimed): round trip.  When every source closes and the consumer
   reads to the end, output i has received exactly the values of source i,
   in order, and is closed. *)
C1_RoundTrip ==
  (AllClose /\ RunOver) =>
    \A i \in Ids : demuxed[i].queue = srcData[i] /\ demuxed[i].state = "closed"

(* a run in which the round trip does complete *)
C1_Completes ==
  /\ AllClose /\ RunOver /\ consumer = "done"
  /\ \A i \in Ids : demuxed[i].queue = srcData[i] /\ demuxed[i].state = "closed"
  /\ \E i \in Ids : Len(srcData[i]) = MaxLen

(* C2: per-id FIFO order.  The data frames enqueued for id i are the frames
   of a prefix of the values of source i, in order, and the values the
   demuxer has enqueued on output i are a prefix of the same sequence. *)
C2_PerIdFifo ==
  \A i \in Ids :
    /\ Len(DataFramesOf(i)) <= Len(srcData[i])
    /\ DataFramesOf(i) = [j \in 1 .. Len(DataFramesOf(i)) |-> DataFrame(i, srcData[i][j])]
    /\ IsPrefix(demuxed[i].queue, srcData[i])
    /\ Len(demuxed[i].queue) <= Len(DataFramesOf(i))

(* two values of one source demuxed in order while frames of another id were
   enqueued in between *)
C2_Interleaved ==
  \E i, j \in Ids :
    /\ i # j
    /\ Len(demuxed[i].queue) = 2
    /\ demuxed[i].queue = srcData[i]
    /\ Len(demuxed[j].queue) = 1

Stalled ==
  /\ lastReaderId # NullId
  /\ ctrl.state = "readable"
  /\ \A i \in Ids : inflight[i] = 0
  /\ \E i \in Ids : ~readerById[i].end /\ ~readerById[i].busy
  /\ getNextReader(readerById, lastReaderId).kind = "all-busy"

(* C3 (as claimed): termination of the muxed output.  When every source
   closes and the consumer keeps reading, the muxed output ends closed, and
   the muxer is never left with a live, idle source, no read in flight and
   a selection that takes no action. *)
C3_OutputCloses ==
  /\ (AllClose /\ RunOver) => ctrl.state = "closed"
  /\ (AllClose /\ consumer = "reading") => ~Stalled

(* C4 (as claimed): a slow source does not block the others.  When the read
   of source h stays pending and the others are finite, every value and the
   terminal frame of each other source have been enqueued, and their
   demuxed outputs are closed, by the time nothing else can happen. *)
C4_SlowSourceDoesNotBlock ==
  \A h \in Ids :
    (srcFate[h] = "hang" /\ inflight[h] > 0 /\ RunOver) =>
      \A i \in Ids \ {h} :
        /\ enqueued[i] = [j \in 1 .. Len(srcData[i]) |-> DataFrame(i, srcData[i][j])]
                         \o <<TerminalFrame(i)>>
        /\ demuxed[i].queue = srcData[i]
        /\ demuxed[i].state = "closed"

(* a run in which the other sources do finish while one read stays pending *)
C4_OthersFinish ==
  \E h \in Ids :
    /\ srcFate[h] = "hang" /\ inflight[h] > 0 /\ RunOver
    /\ \A i \in Ids \ {h} : demuxed[i].queue = srcData[i] /\ demuxed[i].state = "closed"
    /\ \E i \in Ids \ {h} : Len(srcData[i]) = MaxLen

(* C7: cancellation propagation.  A cancel of the muxed output with reason r
   invokes the cancel handler of every source that has not ended, with
   'The muxer stream was canceled: ' followed by r. *)
C7_CancelPropagates ==
  [][(consumer = "reading" /\ consumer' = "canceled") =>
       \A i \in Ids :
         /\ (srcState[i] = "readable") =>
              handlerReason'[i] = "The muxer stream was canceled: " \o cancelReason'
         /\ (~readerById[i].end /\ ctrl.state = "readable") =>
              readerCancel'[i] = "The muxer stream was canceled: " \o cancelReason']_vars

(* cancelled mid-stream: one source had ended, another had a read pending *)
C7_CancelledMidStream ==
  /\ consumer = "canceled"
  /\ cancelReason = "r"
  /\ \E i, j \in Ids :
       /\ handlerReason[i] = "The muxer stream was canceled: r"
       /\ inflight[i] > 0
       /\ handlerReason[j] = NoReason
       /\ readerById[j].end

(* C8 (as claimed): source error propagation.  The step in which a read
   against a source rejects with e leaves the muxed output errored with e. *)
C8_SourceErrorPropagates ==
  [][(\E i \in Ids : srcState[i] = "errored" /\ inflight'[i] < inflight[i]) =>
       (ctrl'.state = "errored" /\ ctrl'.storedError = SourceError)]_vars

(* C15: kind preservation end to end.  The frame of a source value has
   dataIsRaw = true exactly when the value is a Uint8Array, and the value
   the demuxer enqueues for it has the kind of the source value and is equal
   to it: the same bytes for a Uint8Array, the parsed JSON value otherwise. *)
C15_KindPreserved ==
  \A i \in Ids :
    /\ \A j \in 1 .. Len(DataFramesOf(i)) :
         j <= Len(srcData[i]) =>
           arrayToHeader(DataFramesOf(i)[j]).header.dataIsRaw = (srcData[i][j].k = "raw")
    /\ \A j \in 1 .. Len(demuxed[i].queue) :
         j <= Len(srcData[i]) =>
           /\ demuxed[i].queue[j].k = srcData[i][j].k
           /\ demuxed[i].queue[j].v = srcData[i][j].v

(* an array and then a Uint8Array of one source have been demuxed, the array
   as an array and the Uint8Array as a Uint8Array *)
C15_RawAndJsonDelivered ==
  \E i \in Ids :
    /\ Len(demuxed[i].queue) = 2
    /\ demuxed[i].queue[1] = Arr(<<1, 2>>)
    /\ demuxed[i].queue[2] = Raw(<<12, 1, 255>>)
    /\ srcData[i] = demuxed[i].queue

(* the readers in the cyclic order that starts after last *)
CyclicOrder(rById, last) ==
  LET n == Cardinality(DOMAIN rById) IN [j \in 1 .. n |-> (last + j) % n]

(* the selection as claimed: the first reader after last, in cyclic order,
   that is neither ended nor busy *)
CyclicSelection(rById, last) ==
  LET order == CyclicOrder(rById, last)
      open == {j \in 1 .. Len(order) : Available(rById, order[j])}
  IN IF \A r \in DOMAIN rById : rById[r].end THEN AllDone
     ELSE IF open = {} THEN AllBusy
     ELSE Selected(order[CHOOSE j \in open : \A k \in open : j <= k])

(* C20 (as claimed): reader selection.  The first scheduling cycle selects
   reader 0; afterwards, with L the id selected last, getNextReader returns
   'all-done' iff every reader is ended, otherwise the first reader in the
   cyclic order L+1, ..., N-1, 0, ..., L that is neither ended nor busy, and
   'all-busy' only when there is no such reader. *)
C20_ReaderSelection ==
  IF lastReaderId = NullId
  THEN attemptNextRead(M).lastReaderId = 0
  ELSE getNextReader(readerById, lastReaderId) = CyclicSelection(readerById, lastReaderId)

(* C21 (as claimed): no concurrent reads on one source.  At most one read is
   in flight on each reader, and the busy flag of a reader is true exactly
   while a read on it is unresolved. *)
C21_NoConcurrentReads ==
  \A i \in DOMAIN readerById :
    /\ inflight[i] <= 1
    /\ readerById[i].busy <=> inflight[i] = 1

(* the positions of the terminal frames among the frames enqueued for id i *)
TerminalPositions(i) == {j \in 1 .. Len(enqueued[i]) : IsTerminal(enqueued[i][j])}

(* C22: terminal frames.  For each id at most one frame with end = true has
   been enqueued; when there is one, the source has signalled completion
   (it is closed and its reader is marked ended) and the frame is the last
   one enqueued for that id. *)
C22_OneTerminalFrameLast ==
  \A i \in Ids :
    /\ Cardinality(TerminalPositions(i)) <= 1
    /\ TerminalPositions(i) # {} =>
         /\ TerminalPositions(i) = {Len(enqueued[i])}
         /\ srcState[i] = "closed"
         /\ readerById[i].end

(* a source has given two values and then its end: its terminal frame is the
   third frame of its id, while another source is still being read *)
C22_TerminalAfterValues ==
  \E i, j \in Ids :
    /\ Len(enqueued[i]) = 3
    /\ TerminalPositions(i) = {3}
    /\ ~readerById[j].end
    /\ enqueued[j] # <<>>

(* a step in which a read is issued on reader i: one more read is in flight,
   or the read that resolved in this step was followed by a new one *)
ReadIssuedOn(i) ==
  \/ inflight'[i] > inflight[i]
  \/ inflight'[i] = inflight[i] /\ inflight[i] > 0 /\ srcPos'[i] # srcPos[i]

(* the consumer is not ready: the desired size of the muxed output is <= 0 *)
NoDemand(c) == ~DesiredSizeIsNull(c) /\ DesiredSize(c) <= 0

(* a scheduling cycle run in the current state, when it has no demand, issues
   no read, changes no busy or ended flag and does not close the output *)
IdleCycleChangesNothing ==
  NoDemand(ctrl) =>
    LET after == pull(M)
    IN /\ after.readerById = readerById
       /\ after.inflight = inflight
       /\ after.lastReaderId = lastReaderId
       /\ after.ctrl.state = ctrl.state
       /\ after.ctrl.closeRequested = ctrl.closeRequested

(* a read is issued, and the output is closed by the muxer, only with a
   positive desired size *)
IssuedOnDemand ==
  /\ (\E i \in Streams : ReadIssuedOn(i)) =>
       ~DesiredSizeIsNull(ctrl') /\ DesiredSize(ctrl') > 0
  /\ (ctrl'.closeRequested /\ ~ctrl.closeRequested) =>
       HighWaterMark - Len(ctrl'.queue) > 0

(* C23: demand-driven reads.  A scheduling cycle that finds the desired size
   of the muxed output <= 0 issues no read, changes no reader's busy or ended
   flag and does not close the output; and every read is issued in a state
   whose desired size is positive. *)
C23_DemandDrivenReads == []IdleCycleChangesNothing /\ [][IssuedOnDemand]_vars

(* a value has been enqueued with nobody waiting for it, so the desired size
   is 0, while a reader is free to be read and is left alone *)
C23_NoDemandReaderFree ==
  /\ NoDemand(ctrl)
  /\ ctrl.state = "readable"
  /\ \E i \in Streams : Available(readerById, i) /\ enqueued[i] # <<>>
  /\ \E j \in Streams : inflight[j] = 1

(* C24 (as claimed): backpressure check before every enqueue.  Every step
   that enqueues a frame, data or terminal, on the muxed output starts in a
   state whose desired size is positive. *)
C24_EnqueueOnlyOnDemand ==
  [][(\E i \in Streams : enqueued'[i] # enqueued[i]) =>
       ~DesiredSizeIsNull(ctrl) /\ DesiredSize(ctrl) > 0]_vars

(* a read against some source has rejected *)
ReadHasRejected == SourceError \in unhandled

(* C25 (as claimed): quiescence after a source error.  Once a read against
   some source has rejected, no step issues a read against any source and no
   step enqueues a frame on the muxed output, reads in flight that resolve
   afterwards included. *)
C25_QuiescentAfterSourceError ==
  [][ReadHasRejected =>
       /\ \A i \in Streams : ~ReadIssuedOn(i)
       /\ enqueued' = enqueued]_vars

(* C26 (as claimed): cancel targets only live sources.  In the step that
   cancels the muxed output, reader.cancel is called on exactly the readers
   whose source has not ended, and on no reader that has ended and released
   its lock. *)
C26_CancelOnlyLiveSources ==
  [][(consumer = "reading" /\ consumer' = "canceled" /\ ctrl.state = "readable") =>
       \A i \in Streams :
         /\ (readerCancel'[i] # readerCancel[i]) <=> ~readerById[i].end
         /\ (readerById[i].end /\ ~locked[i]) => readerCancel'[i] = NoReason]_vars

(* C27 (as claimed): cancel awaits acknowledgement.  There is no state in
   which the consumer's cancel has completed while a cancellation forwarded
   to a source is still pending. *)
C27_CancelAwaitsSources == cancelOp.completed => cancelOp.pending = {}

(* C28 (as claimed): cancel without a reason.  When the muxed output is
   cancelled with no reason, the reason every reader.cancel call and every
   source's cancel handler receives is exactly
   'The muxer stream was canceled.' *)
C28_CancelWithoutReason ==
  [][(consumer = "reading" /\ consumer' = "canceled" /\ cancelReason' = Undefined) =>
       \A i \in Streams :
         /\ readerCancel'[i] # readerCancel[i] =>
              readerCancel'[i] = "The muxer stream was canceled."
         /\ handlerReason'[i] # handlerReason[i] =>
              handlerReason'[i] = "The muxer stream was canceled."]_vars

(* C29 (as claimed): results discarded after cancel.  A read that resolves
   after the consumer has cancelled the muxed output enqueues no frame and
   raises no error. *)
C29_DiscardedAfterCancel ==
  [][(consumer = "canceled" /\ \E i \in Streams : inflight'[i] < inflight[i]) =>
       /\ enqueued' = enqueued
       /\ unhandled' = unhandled]_vars

(* a value that holds the marker: a Uint8Array with the byte 0x01 or a
   string with the character U+0001 *)
HoldsMarker(value) ==
  value.k \in {"raw", "str"} /\ \E n \in 1 .. Len(value.v) : value.v[n] = START_OF_HEADING

Payload(frame) == SubSeq(frame, HEADER_LENGTH + 1, Len(frame))
MarkerInPayload(frame) ==
  \E n \in 1 .. Len(Payload(frame)) : Payload(frame)[n] = START_OF_HEADING

(* the j-th value of source i holds the marker and its frame has been enqueued *)
MarkerValueEnqueued(i, j) ==
  j <= Len(DataFramesOf(i)) /\ j <= Len(srcData[i]) /\ HoldsMarker(srcData[i][j])

(* C34 (amended): a marker inside a value never reaches the wire.  The frame
   of a Uint8Array with the byte 0x01, or of a string with U+0001, carries no
   0x01 byte in its payload, the demuxer takes the frame as one frame, and
   the value it enqueues on the output for it is the value of the source. *)
C34_MarkerNeverOnWire ==
  \A i \in Ids : \A j \in 1 .. MaxLen :
    MarkerValueEnqueued(i, j) =>
      /\ ~MarkerInPayload(DataFramesOf(i)[j])
      /\ getMuxedChunks(DataFramesOf(i)[j]) =
           [threw |-> FALSE, chunks |-> <<DataFramesOf(i)[j]>>]
      /\ j <= Len(demuxed[i].queue) => demuxed[i].queue[j] = srcData[i][j]

(* a Uint8Array with the byte 0x01 and a string with U+0001 have both been
   demuxed as they were *)
C34_MarkerValuesDelivered ==
  \E i, j \in Ids :
    /\ Len(demuxed[i].queue) = 2
    /\ demuxed[i].queue[2] = Raw(<<12, 1, 255>>)
    /\ demuxed[j].queue = <<Str(<<1, 34>>)>>
    /\ MarkerValueEnqueued(i, 2) /\ MarkerValueEnqueued(j, 1)

(* C34 (as claimed): marker byte inside a payload.  The frame of a value
   that holds the marker carries a 0x01 byte in its payload, the demuxer
   takes that byte as the start of a new frame, and the value is not
   delivered intact on its output. *)
C34_MarkerCorruptsFrame ==
  \A i \in Ids : \A j \in 1 .. MaxLen :
    MarkerValueEnqueued(i, j) =>
      /\ MarkerInPayload(DataFramesOf(i)[j])
      /\ Len(getMuxedChunks(DataFramesOf(i)[j]).chunks) > 1
      /\ j <= Len(demuxed[i].queue) => demuxed[i].queue[j] # srcData[i][j]

(* a run without cancellation and without a source that errors *)
NoCancelNoSourceError ==
  /\ cancelReason = NoReason
  /\ \A i \in Streams : srcFate[i] # "error"

(* controller.close() or controller.enqueue() has been called on an output
   that close() had already been called on: the call throws a TypeError,
   which rejects pull or leaves the read handler unhandled *)
CalledAfterClose ==
  \/ ctrl.pullFailed
  \/ "TypeError: close" \in unhandled
  \/ "TypeError: enqueue" \in unhandled

(* once closed, the muxed output has had every source's terminal frame
   enqueued, every reader is ended and no read is in flight *)
ClosedWhenAllEnded ==
  ctrl.closeRequested =>
    \A i \in Streams :
      /\ readerById[i].end
      /\ inflight[i] = 0
      /\ TerminalPositions(i) # {}

(* a step from a state in which the output has been closed enqueues no frame *)
NoEnqueueAfterClose == ctrl.closeRequested => enqueued' = enqueued

(* C36: no enqueue after close.  In runs without cancellation or source
   errors the muxer closes its output at most once, and only in a state
   where every reader is ended and no read is in flight; no data or terminal
   frame is enqueued after the output was closed, and every source's
   terminal frame has been enqueued before the close. *)
C36_NoEnqueueAfterClose ==
  /\ [](NoCancelNoSourceError => ClosedWhenAllEnded /\ ~CalledAfterClose)
  /\ [][NoCancelNoSourceError => NoEnqueueAfterClose]_vars

(* the muxer has closed its output after the terminal frames of all sources,
   two of which gave values, and the consumer has read it to its end *)
C36_ClosedAfterAllTerminals ==
  /\ NoCancelNoSourceError
  /\ ctrl.closeRequested
  /\ ctrl.state = "closed"
  /\ consumer = "done"
  /\ Cardinality({i \in Streams : Len(enqueued[i]) > 1}) = 2

(* a step leaves an ended reader ended and not busy, and issues no read on it *)
EndedStaysEnded ==
  \A i \in Streams :
    readerById[i].end =>
      /\ readerById'[i].end
      /\ ~readerById'[i].busy
      /\ ~ReadIssuedOn(i)
      /\ inflight'[i] = 0

(* C37: ended is permanent.  Once a source has signalled completion, its
   reader's ended flag stays true and its busy flag stays false in every
   later state, and no further read is issued on that reader, whether pull
   or the re-invocation after an enqueue starts the next scheduling cycle. *)
C37_EndedIsPermanent ==
  /\ [](\A i \in Streams : readerById[i].end => ~readerById[i].busy /\ inflight[i] = 0)
  /\ [][EndedStaysEnded]_vars

(* the first reader has ended without a value, and after two more values of
   another source a read on that source is in flight: scheduling cycles have
   run past the ended reader *)
C37_CyclesPastEndedReader ==
  \E j \in Streams \ {0} :
    /\ readerById[0].end
    /\ srcData[0] = <<>>
    /\ Len(enqueued[j]) = 2
    /\ inflight[j] = 1
    /\ lastReaderId = j

(***************************************************************************)
(* The muxer under a consumer that keeps reading, with a short source, a   *)
(* long source and a last source whose read may never resolve.             *)
(***************************************************************************)
MaxShort == 1
MaxLong == 4

FairLengths == {l \in [Ids -> 0 .. MaxLong] : l[0] <= MaxShort /\ l[NumStreams - 1] = 0}
FairFates == {f \in [Ids -> {"close", "hang"}] : \A i \in Ids : f[i] = "hang" => i = NumStreams - 1}

InitFair ==
  /\ InitMuxer(FairLengths, FairFates, Direct)
  /\ InitDemuxer
  /\ codec = CodecIdle

NextFair ==
  \/ Start
  \/ PullSettled
  \/ ConsumerRead
  \/ \E i \in Streams : SourceEnd(i)
  \/ \E i \in Streams : ReadResolve(i)

SpecFair == InitFair /\ [][NextFair]_vars

(* C19 (as claimed): bounded fairness.  While the consumer keeps reading, a
   reader that is neither ended nor busy is passed over by at most N - 1
   scheduling cycles in a row, N the number of sources, whatever the reads
   of the other sources do. *)
C19_BoundedFairness ==
  \A i \in DOMAIN waited : waited[i] <= NumStreams - 1

(***************************************************************************)
(* Properties of the call muxer(streams), checked under SpecArgs.          *)
(***************************************************************************)
IsArrayOfStreams(arg) ==
  arg.kind = "array" /\ \A j \in 1 .. Len(arg.elems) : arg.elems[j] = "stream"

InvalidArgument(arg) == ~IsArrayOfStreams(arg) \/ Len(arg.elems) = 0

NoReaderAcquired == \A i \in Streams : ~locked[i]
NoReadIssued == \A i \in Streams : inflight[i] = 0 /\ ~(i \in DOMAIN readerById /\ readerById[i].busy)

(* C9 (as claimed): argument validation.  Called with an empty array, with
   something that is not an array, or with an array holding something that
   is not a stream, muxer throws an Error whose message says
   that muxer expects an array of ReadableStreams, and has acquired no
   reader. *)
C9_ArgumentValidation ==
  (ctor.state # "pending" /\ InvalidArgument(streams)) =>
    /\ ctor = Threw("Error: muxer expects an array of ReadableStreams")
    /\ NoReaderAcquired

(* C10 (as claimed): id-limit enforcement.  Called with 251 or more streams,
   muxer throws an error about the id bound, and no read has been issued. *)
C10_IdLimitAtConstruction ==
  (ctor.state # "pending" /\ IsArrayOfStreams(streams)
     /\ Len(streams.elems) >= MAX_UINT8 + 1) =>
    /\ ctor = Threw(StreamIdError)
    /\ NoReadIssued

(* the pipe of the muxed output into the sink has rejected with error e: the
   muxed output is errored with e, which is what the pipe rejects with *)
PipeRejectedWith(e) ==
  /\ ctrl.state = "errored"
  /\ ctrl.storedError = e
  /\ consumer # "done"

(* C11 (as claimed): too many streams is observable by the client.  Called
   with more streams than there are header ids, once the frame of an id
   above the bound has raised the id-range error, the pipe of the muxed
   output into a sink has rejected with that error. *)
C11_TooManyStreamsObservable ==
  (ctor.state = "returned" /\ Len(streams.elems) > MAX_UINT8 + 1
     /\ StreamIdError \in unhandled) =>
    PipeRejectedWith(StreamIdError)

(***************************************************************************)
(* The demuxer behind a transport that cuts the muxed bytes into chunks of *)
(* its own.  The muxer side is reduced to what it puts on the wire: for    *)
(* each id the frames of the source's values in order, then its terminal   *)
(* frame, the ids interleaved in any order.                                *)
(***************************************************************************)
Open == [state |-> "open", fragmented |-> FALSE, empty |-> FALSE, chunks |-> 0,
         malformed |-> FALSE]

InitDemux == InitWith({[i \in Ids |-> "close"]}, Open)

RECURSIVE Concat(_)
Concat(ss) == IF ss = <<>> THEN <<>> ELSE Head(ss) \o Concat(Tail(ss))

(* the read handler's two enqueues: the frame of the next value of source i,
   or its terminal frame when the source is done *)
MuxEmit(i) ==
  /\ transport.state = "open"
  /\ ~readerById[i].end
  /\ LET end == srcPos[i] = Len(srcData[i])
         byteChunk == IF end THEN serializeChunk(i, TRUE, EndOfTransmission)
                      ELSE serializeChunk(i, FALSE, srcData[i][srcPos[i] + 1])
     IN /\ wire' = Append(wire, [frame |-> byteChunk.bytes, rest |-> byteChunk.bytes])
        /\ enqueued' = [enqueued EXCEPT ![i] = Append(@, byteChunk.bytes)]
        /\ srcPos' = IF end THEN srcPos ELSE [srcPos EXCEPT ![i] = @ + 1]
        /\ readerById' = [readerById EXCEPT ![i].end = end]
  /\ UNCHANGED <<sideVars, srcData, srcFate, srcState, handlerReason, readerCancel, locked, inflight,
                 lastReaderId, ctrl, unhandled, consumer, cancelVars, waited, demuxVars,
                 argVars, transport, reference>>

MaxCut == 6

(* where the transport may end a chunk that starts with the first k pieces on
   the wire: on the frame boundary (0) or n bytes into the next frame, in
   its header or in its payload *)
CutPoints(k) ==
  LET left == IF k < Len(wire) THEN Len(wire[k + 1].rest) - 1 ELSE 0
  IN 0 .. (IF left < MaxCut THEN left ELSE MaxCut)

(* the transport hands the demuxer one chunk: what is left of the first k
   frames on the wire and the first n bytes of the frame after them; the
   reference demuxer is written each frame that is now complete.  When the
   write fails, pipeTo cancels the muxed stream: what is on the wire is
   dropped and nothing more is written *)
TransportDeliver(k, n) ==
  /\ transport.state = "open"
  /\ LET chunk == Concat([j \in 1 .. k |-> wire[j].rest])
                  \o (IF n > 0 THEN SubSeq(wire[k + 1].rest, 1, n) ELSE <<>>)
         complete == [j \in 1 .. k |-> wire[j].frame]
         isEmpty == k = 0 /\ n = 0
     IN \E d \in {DemuxWrite([demuxed |-> demuxed, sink |-> sink], chunk)} :
        /\ demuxed' = d.demuxed
        /\ sink' = d.sink
        /\ reference' = PipeChunks(reference, complete)
        /\ wire' = IF d.sink = "errored" THEN <<>>
                   ELSE IF n > 0
                   THEN <<[wire[k + 1] EXCEPT !.rest = SubSeq(@, n + 1, Len(@))]>>
                        \o SubSeq(wire, k + 2, Len(wire))
                   ELSE SubSeq(wire, k + 1, Len(wire))
        /\ transport' = [transport EXCEPT
                           !.state = IF d.sink = "errored" THEN "canceled" ELSE @,
                           !.fragmented = @ \/ n > 0,
                           !.empty = @ \/ isEmpty,
                           !.malformed = @ \/ (sink = "writable" /\ Malformed(chunk)),
                           !.chunks = IF isEmpty \/ @ = 2 THEN @ ELSE @ + 1]
  /\ UNCHANGED <<sideVars, muxVars, argVars>>

(* the muxed stream closes after its last frame: pipeTo closes the sink *)
TransportClose ==
  /\ transport.state = "open"
  /\ wire = <<>>
  /\ \A i \in Streams : readerById[i].end
  /\ transport' = [transport EXCEPT !.state = "closed"]
  /\ sink' = IF sink = "writable" THEN "closed" ELSE sink
  /\ reference' = [reference EXCEPT !.sink = IF @ = "writable" THEN "closed" ELSE @]
  /\ UNCHANGED <<sideVars, muxVars, argVars, demuxed, wire>>

(* the muxed stream errors: pipeTo aborts the sink *)
TransportAbort(error) ==
  /\ transport.state = "open"
  /\ transport' = [transport EXCEPT !.state = "aborted"]
  /\ LET d == [demuxed |-> demuxed, sink |-> sink]
         aborted(x) == IF x.sink = "writable"
                       THEN [DemuxAbort(x, error) EXCEPT !.sink = "errored"]
                       ELSE x
     IN /\ demuxed' = aborted(d).demuxed
        /\ sink' = aborted(d).sink
        /\ reference' = aborted(reference)
  /\ wire' = <<>>
  /\ UNCHANGED <<sideVars, muxVars, argVars>>

NextDemux ==
  \/ \E i \in Streams : MuxEmit(i)
  \/ \E k \in 0 .. Len(wire) : \E n \in CutPoints(k) : TransportDeliver(k, n)
  \/ TransportClose
  \/ TransportAbort(SourceError)

SpecDemux == InitDemux /\ [][NextDemux]_vars

(***************************************************************************)
(* Properties of the demuxer behind a transport, checked under SpecDemux.  *)
(***************************************************************************)
Demuxer == [demuxed |-> demuxed, sink |-> sink]

(* the bytes delivered so far end on a frame boundary *)
Aligned == wire = <<>> \/ Head(wire).rest = Head(wire).frame

(* C5: coalescing does not change the result.  As long as every chunk the
   transport delivered was made of zero, one or several whole frames, the
   demuxed outputs (values, order, closed or not) and the sink are exactly
   those of a demuxer that was written the same frames one per chunk. *)
C5_CoalescingEquivalent ==
  (transport.state # "none" /\ ~transport.fragmented) => Demuxer = reference

(* the whole muxed stream arrived in a single chunk, and an empty chunk too *)
C5_WholeStreamInOneChunk ==
  /\ transport.state = "closed"
  /\ ~transport.fragmented
  /\ transport.empty
  /\ transport.chunks = 1
  /\ \A i \in Ids : demuxed[i].queue = srcData[i] /\ demuxed[i].state = "closed"
  /\ \E i \in Ids : Len(srcData[i]) = MaxLen

(* C6 (as claimed): fragmentation independence.  However the transport cuts
   the bytes, no write fails, no output receives anything but the values of
   its source in order, and whenever the bytes delivered end on a frame
   boundary every output holds the values the unsplit frames give it. *)
C6_FragmentationIndependent ==
  (transport.state \in {"open", "closed", "canceled"}) =>
    /\ sink # "errored"
    /\ \A i \in Ids : IsPrefix(demuxed[i].queue, srcData[i])
    /\ Aligned => \A i \in Ids : demuxed[i].queue = reference.demuxed[i].queue

(* C16: demuxer abort handling.  In the step in which the input stream
   errors with e and the pipe aborts the demuxer's sink, every output that
   is not closed becomes errored with the message 'The demuxer stream was
   aborted: ' followed by e, and every output closed by a terminal frame
   stays as it is. *)
C16_AbortErrorsOpenOutputs ==
  [][(transport.state = "open" /\ transport'.state = "aborted") =>
       \A i \in DOMAIN demuxed :
         IF demuxed[i].state = "closed"
         THEN demuxed'[i] = demuxed[i]
         ELSE /\ demuxed'[i].state = "errored"
              /\ demuxed'[i].error = "The demuxer stream was aborted: " \o SourceError
              /\ demuxed'[i].queue = demuxed[i].queue]_vars

(* the input stream errored after output 0 had been closed by its terminal
   frame and while another output had received a value: the first is
   closed, the other errored with the formatted message *)
C16_AbortedMidStream ==
  /\ transport.state = "aborted"
  /\ demuxed[0].state = "closed"
  /\ \E i \in Ids :
       /\ demuxed[i].state = "errored"
       /\ demuxed[i].error = "The demuxer stream was aborted: e"
       /\ Len(demuxed[i].queue) > 0

(***************************************************************************)
(* The call demuxer(stream, numberOfStreams) with arguments of every       *)
(* shape, followed by the frames the transport delivers to it.  The muxer  *)
(* has NumStreams sources that emit no value: the wire carries their       *)
(* terminal frames, in any order.                                          *)
(***************************************************************************)
NaN == [type |-> "number", nan |-> TRUE, tenths |-> 0]
Fraction(t) == [type |-> "number", nan |-> FALSE, tenths |-> t]
NotANumber(type) == [type |-> type, nan |-> FALSE, tenths |-> 0]

(* String(x) of a numberOfStreams argument *)
NumberText(x) ==
  IF x.type # "number" THEN x.type
  ELSE IF x.nan THEN "NaN"
  ELSE IF x.tenths % 10 = 0 THEN ToString(x.tenths \div 10)
  ELSE ToString(x.tenths \div 10) \o "." \o ToString(x.tenths % 10)

(* ToLength(x) as Array.from({length: x}) takes it, for a positive number *)
ToLength(x) == x.tenths \div 10

Unpiped == [Open EXCEPT !.state = "unpiped"]

(* demuxer(stream, numberOfStreams): what the call returns or throws, the
   controllers it has registered, and whether it has piped the stream *)
demuxer(stream, numberOfStreams) ==
  IF stream # "ReadableStream"
  THEN [result |-> Threw("Error: demuxer expects a ReadableStream as the first argument. "
                         \o "This should be the multiplexed stream."),
        outputs |-> NewOutputs(0), piped |-> FALSE]
  ELSE IF \/ numberOfStreams.type # "number"
          \/ (~numberOfStreams.nan /\ numberOfStreams.tenths <= 0)
          \/ numberOfStreams.nan
  THEN [result |-> Threw("Error: demuxer expects a positive number of streams to demux. "
                         \o "Received: " \o NumberText(numberOfStreams)),
        outputs |-> NewOutputs(0), piped |-> FALSE]
  ELSE [result |-> Returned, outputs |-> NewOutputs(ToLength(numberOfStreams)),
        piped |-> TRUE]

MaxOutputs == 4

DemuxArgumentShapes ==
  [stream : {"ReadableStream", "string", "undefined"},
   numberOfStreams : {Number(n) : n \in -1 .. MaxOutputs}
                     \cup {Fraction(5), Fraction(15), NaN, NotANumber("string"),
                           NotANumber("undefined")}]

InitDemuxArgs ==
  /\ InitMuxer(NoValues, {[i \in Ids |-> "close"]}, Unpiped)
  /\ codec = CodecIdle
  /\ demuxArgs \in DemuxArgumentShapes
  /\ demuxCtor = Pending
  /\ demuxed = NewOutputs(0)
  /\ sink = "writable"
  /\ reference = [demuxed |-> NewOutputs(0), sink |-> "writable"]

(* the call demuxer(stream, numberOfStreams) *)
ConstructDemuxer ==
  /\ demuxCtor.state = "pending"
  /\ LET call == demuxer(demuxArgs.stream, demuxArgs.numberOfStreams) IN
       /\ demuxCtor' = call.result
       /\ demuxed' = call.outputs
       /\ reference' = [reference EXCEPT !.demuxed = call.outputs]
       /\ transport' = IF call.piped THEN Open ELSE transport
  /\ UNCHANGED <<muxVars, argVars, codecVars, sink, wire, demuxArgs>>

NextDemuxArgs ==
  \/ ConstructDemuxer
  \/ \E i \in Streams : MuxEmit(i)
  \/ \E k \in 0 .. Len(wire) : \E n \in CutPoints(k) : TransportDeliver(k, n)
  \/ TransportClose
  \/ TransportAbort(SourceError)

SpecDemuxArgs == InitDemuxArgs /\ [][NextDemuxArgs]_vars

(***************************************************************************)
(* Properties of the call demuxer(stream, numberOfStreams), checked under  *)
(* SpecDemuxArgs.                                                          *)
(***************************************************************************)
IsPositiveInteger(x) ==
  x.type = "number" /\ ~x.nan /\ x.tenths > 0 /\ x.tenths % 10 = 0

InvalidDemuxArguments(args) ==
  args.stream # "ReadableStream" \/ ~IsPositiveInteger(args.numberOfStreams)

(* C17 (as claimed): demuxer argument validation.  Called with a first
   argument that is not a ReadableStream, or with a count that is not a
   positive integer (zero, negative, NaN, not a number, a positive
   non-integer), demuxer throws, has created no output stream and has not
   piped the input. *)
C17_DemuxerArgumentValidation ==
  (demuxCtor.state # "pending" /\ InvalidDemuxArguments(demuxArgs)) =>
    /\ demuxCtor.state = "threw"
    /\ DOMAIN demuxed = {}
    /\ transport.state = "unpiped"

(* C18: eager registration.  Called with a stream and a positive integer
   count, demuxer returns count output streams whose controllers are all
   registered from the moment it returns, before any chunk is written; a
   whole frame fails to find its controller only if its id is count or
   more. *)
C18_EagerRegistration ==
  (demuxCtor.state = "returned" /\ IsPositiveInteger(demuxArgs.numberOfStreams)) =>
    /\ DOMAIN demuxed = 0 .. (ToLength(demuxArgs.numberOfStreams) - 1)
    /\ DOMAIN reference.demuxed = DOMAIN demuxed
    /\ (reference.sink = "errored" /\ transport.state # "aborted") =>
         \E i \in Streams : i >= ToLength(demuxArgs.numberOfStreams) /\ enqueued[i] # <<>>

(* with count 3, the first frame to arrive was the terminal frame of id 2:
   it found its controller, the outputs 0 and 1 are still open *)
C18_LastIdArrivesFirst ==
  /\ demuxCtor.state = "returned"
  /\ demuxArgs.numberOfStreams = Number(NumStreams)
  /\ sink = "writable"
  /\ demuxed[2].state = "closed"
  /\ demuxed[0].state = "readable"
  /\ demuxed[1].state = "readable"

(***************************************************************************)
(* The codec functions of helpers.ts on their own: one input is drawn, a   *)
(* header or a value, it is encoded and the result is decoded.             *)
(***************************************************************************)
IdMargin == 2

(* headers with every id of the range and the ids just outside of it *)
HeaderInputs ==
  [id : (0 - IdMargin) .. (MAX_UINT8 + IdMargin), end : BOOLEAN, dataIsRaw : BOOLEAN]

(* values of every kind of SerializableData, those of the repository's tests
   among them *)
PayloadInputs ==
  {Num(0), Num(3), Num(12), Num(250),
   Str(<<>>), Str(<<104, 101, 108, 108, 111>>), Str(<<97>>), Str(<<1, 34>>),
   Str(<<92, 10>>), Str(<<4>>), Str(<<91, 49, 93>>),
   Bool(TRUE), Bool(FALSE), NullValue,
   Arr(<<>>), Arr(<<1, 2>>), Arr(<<2, 3, 4>>), Arr(<<300>>),
   Obj(<<>>), Obj(<< <<(<<97>>), 1>> >>), Obj(<< <<(<<98, 34>>), 20>>, <<(<<97>>), 1>> >>),
   Raw(<<>>), Raw(<<0>>), Raw(<<0, 1, 2, 3, 200>>), Raw(<<12, 1, 255>>),
   Raw(<<1, 5, 5, 5>>), Raw(<<91, 49, 93>>)}

MaxBuffer == 5
ByteInputs == {START_OF_HEADING, NUMBER_OFFSET, NUMBER_OFFSET + 1}

(* the ArrayBuffers of up to MaxBuffer bytes, and the Uint8Arrays over one:
   every window [byteOffset, byteOffset + length) of it; array.buffer is the
   whole buffer, the array's own bytes are those of the window *)
Buffers == UNION {[1 .. n -> ByteInputs] : n \in 0 .. MaxBuffer}
Windows(buffer) ==
  {w \in [byteOffset : 0 .. Len(buffer), length : 0 .. Len(buffer)] :
     w.byteOffset + w.length <= Len(buffer)}
ArrayBytes(c) == SubSeq(c.array, c.window.byteOffset + 1, c.window.byteOffset + c.window.length)

(* payload bytes as they may arrive in a frame: JSON texts (12, "a", [1],
   [1,2], null) and texts that are no JSON (a, [1, and "a without its closing
   quote, nothing at all) *)
DataInputs ==
  {<<49, 50>>, <<34, 97, 34>>, <<91, 49, 93>>, <<91, 49, 44, 50, 93>>,
   <<110, 117, 108, 108>>, <<97>>, <<91, 49, 44>>, <<34, 97>>, <<>>}

CodecInputs ==
  {[CodecIdle EXCEPT !.stage = "input", !.subject = "header", !.header = h] :
     h \in HeaderInputs}
  \cup {[CodecIdle EXCEPT !.stage = "input", !.subject = "data", !.value = v] :
          v \in PayloadInputs}
  \cup UNION {{[CodecIdle EXCEPT !.stage = "input", !.subject = "array", !.array = b,
                                 !.window = w] : w \in Windows(b)} : b \in Buffers}
  \cup {[CodecIdle EXCEPT !.stage = "input", !.subject = "payload", !.data = d,
                          !.isRaw = r] : d \in DataInputs, r \in BOOLEAN}

InitCodec ==
  /\ InitMuxer(NoValues, {[i \in Ids |-> "close"]}, Direct)
  /\ InitDemuxer
  /\ codec \in CodecInputs

codecUnchanged == UNCHANGED <<muxVars, demuxVars, argVars, wireVars, demuxArgVars>>

(* headerToArray(header) *)
EncodeHeader ==
  /\ codec.stage = "input"
  /\ codec.subject = "header"
  /\ LET array == headerToArray(codec.header) IN
       codec' = [codec EXCEPT !.stage = "encoded", !.array = array.bytes,
                              !.window = [byteOffset |-> 0, length |-> Len(array.bytes)],
                              !.threw = ~array.ok]
  /\ codecUnchanged

(* arrayToHeader(array) *)
DecodeHeader ==
  /\ codec.stage = "encoded"
  /\ codec.subject = "header"
  /\ ~codec.threw
  /\ LET decoded == arrayToHeader(codec.array) IN
       codec' = [codec EXCEPT !.stage = "decoded", !.decodedHeader = decoded.header,
                              !.threw = ~decoded.ok]
  /\ codecUnchanged

(* arrayToHeader(array) on a given Uint8Array: new DataView(array.buffer)
   reads the buffer of the array from its first byte *)
DecodeArray ==
  /\ codec.stage = "input"
  /\ codec.subject = "array"
  /\ LET decoded == arrayToHeader(codec.array) IN
       codec' = [codec EXCEPT !.stage = "decoded", !.decodedHeader = decoded.header,
                              !.threw = ~decoded.ok]
  /\ codecUnchanged

(* serializeData(value) *)
SerializeData ==
  /\ codec.stage = "input"
  /\ codec.subject = "data"
  /\ LET serialized == serializeData(codec.value) IN
       codec' = [codec EXCEPT !.stage = "encoded", !.data = serialized.data,
                              !.isRaw = serialized.isRaw]
  /\ codecUnchanged

(* deserializeData(data, isRaw) *)
DeserializeData ==
  /\ codec.stage = "encoded"
  /\ codec.subject = "data"
  /\ LET decoded == deserializeData(codec.data, codec.isRaw) IN
       codec' = [codec EXCEPT !.stage = "decoded", !.decodedValue = decoded.value,
                              !.threw = ~decoded.ok]
  /\ codecUnchanged

(* deserializeData(data, isRaw) on a given payload *)
DeserializeGiven ==
  /\ codec.stage = "input"
  /\ codec.subject = "payload"
  /\ LET decoded == deserializeData(codec.data, codec.isRaw) IN
       codec' = [codec EXCEPT !.stage = "decoded", !.decodedValue = decoded.value,
                              !.threw = ~decoded.ok]
  /\ codecUnchanged

NextCodec ==
  \/ EncodeHeader
  \/ DecodeHeader
  \/ DecodeArray
  \/ SerializeData
  \/ DeserializeData
  \/ DeserializeGiven

SpecCodec == InitCodec /\ [][NextCodec]_vars

(***************************************************************************)
(* Properties of the codec functions, checked under SpecCodec.             *)
(***************************************************************************)
ValidId(id) == id >= 0 /\ id <= MAX_UINT8

(* C12: header round trip.  For every header whose id is in 0..250, with any
   end and dataIsRaw, headerToArray does not throw and arrayToHeader of its
   result is the header. *)
C12_HeaderRoundTrip ==
  (codec.subject = "header" /\ ValidId(codec.header.id)) =>
    /\ codec.stage = "encoded" => ~codec.threw /\ Len(codec.array) = HEADER_LENGTH
    /\ codec.stage = "decoded" => ~codec.threw /\ codec.decodedHeader = codec.header

(* the header of the repository's test, and the largest id, have made the
   round trip *)
C12_LargestIdRoundTrip ==
  /\ codec.stage = "decoded"
  /\ codec.header = [id |-> MAX_UINT8, end |-> TRUE, dataIsRaw |-> FALSE]
  /\ codec.decodedHeader = codec.header
  /\ codec.array = <<START_OF_HEADING, 255, 6, 5>>

(* C13: payload round trip.  For every value, JSON value or Uint8Array,
   deserializeData applied to what serializeData returned does not throw and
   returns a value of the same kind that is equal to it. *)
C13_PayloadRoundTrip ==
  (codec.subject = "data" /\ codec.stage = "decoded") =>
    /\ ~codec.threw
    /\ codec.decodedValue.k = codec.value.k
    /\ codec.decodedValue = codec.value

(* the Uint8Array of the repository's test has made the round trip *)
C13_RawRoundTrip ==
  /\ codec.stage = "decoded"
  /\ codec.value = Raw(<<0, 1, 2, 3, 200>>)
  /\ codec.isRaw
  /\ codec.decodedValue = Raw(<<0, 1, 2, 3, 200>>)

(* C14 (as claimed): raw pass-through.  For a Uint8Array, serializeData
   returns isRaw = true and a payload that is the same bytes, with no text
   or JSON encoding applied. *)
C14_RawPassThrough ==
  (codec.subject = "data" /\ codec.stage # "input" /\ codec.value.k = "raw") =>
    /\ codec.isRaw
    /\ codec.data = codec.value.v


(* C30: header encoding.  For every header with id in 0..250, headerToArray
   yields exactly the 4 bytes [0x01, id + 5, end + 5, dataIsRaw + 5], each at
   most 255 and none of the last three equal to 0x01; and headerToArray
   throws exactly when id < 0 or id > 250. *)
C30_HeaderEncoding ==
  (codec.subject = "header" /\ codec.stage \in {"encoded", "decoded"}) =>
    LET h == codec.header IN
    /\ codec.threw <=> (h.id < 0 \/ h.id > 250)
    /\ ~codec.threw =>
         /\ codec.array = <<1, h.id + 5, BoolToNumber(h.end) + 5,
                            BoolToNumber(h.dataIsRaw) + 5>>
         /\ \A k \in 1 .. 4 : codec.array[k] >= 0 /\ codec.array[k] <= 255
         /\ \A k \in 2 .. 4 : codec.array[k] # 1

(* the largest id has been encoded with both flags set, and every byte fits *)
C30_LargestIdEncoded ==
  /\ codec.stage = "encoded"
  /\ codec.header = [id |-> 250, end |-> TRUE, dataIsRaw |-> TRUE]
  /\ ~codec.threw
  /\ codec.array = <<1, 255, 6, 6>>


(* C31 (as claimed): header decoding errors.  arrayToHeader throws whenever
   the array it is given has fewer than 4 bytes or a first byte other than
   0x01, and returns a header without throwing for every array of at least 4
   bytes that starts with 0x01. *)
C31_HeaderDecodingErrors ==
  (codec.subject = "array" /\ codec.stage = "decoded") =>
    LET bytes == ArrayBytes(codec) IN
    codec.threw <=> (Len(bytes) < 4 \/ bytes[1] # 1)


(* C32 (as claimed): lenient payload decoding.  deserializeData never throws;
   for a payload that is not raw and whose text is no valid JSON it returns
   the text itself, and for a raw payload it returns the bytes unchanged. *)
C32_LenientPayloadDecoding ==
  (codec.subject = "payload" /\ codec.stage = "decoded") =>
    /\ ~codec.threw
    /\ codec.isRaw => codec.decodedValue = Raw(codec.data)
    /\ (~codec.isRaw /\ ~JSONParse(codec.data).ok) => codec.decodedValue = Str(codec.data)


(***************************************************************************)
(* Further properties of the demuxer, checked under SpecDemux.             *)
(***************************************************************************)
(* C33 (as claimed): protocol errors are surfaced.  Once the demuxer has been
   written a malformed chunk (bytes before any 0x01, or a frame of fewer than
   4 header bytes), a demuxed output is errored, so that its consumer's read
   rejects. *)
C33_ProtocolErrorsSurfaced ==
  transport.malformed => \E i \in DOMAIN demuxed : demuxed[i].state = "errored"


(***************************************************************************)
(* The demuxer fed by any sender: the muxed input carries well-formed      *)
(* frames of any id in any order, a frame for an output that is already    *)
(* closed among them, and may close at any time.                           *)
(***************************************************************************)
MaxSent == 4

(* the frames a sender may put on the wire: data frames and terminal frames
   of every id *)
FrameValues == {Num(12), Str(<<97>>)}
FrameInputs ==
  {serializeChunk(i, FALSE, v).bytes : i \in Ids, v \in FrameValues}
  \cup {serializeChunk(i, TRUE, EndOfTransmission).bytes : i \in Ids}

InitFrames ==
  /\ InitMuxer(NoValues, {[i \in Ids |-> "close"]}, Open)
  /\ InitDemuxer
  /\ codec = CodecIdle

(* the frames sent so far that the demuxer took or has still to take *)
Sent ==
  Len(wire) + SumTo([i \in Ids |-> Len(demuxed[i].queue)], NumStreams - 1)
            + Cardinality({i \in Ids : demuxed[i].state = "closed"})

(* the sender enqueues a frame on the muxed input *)
Send(frame) ==
  /\ transport.state = "open"
  /\ Sent < MaxSent
  /\ wire' = Append(wire, [frame |-> frame, rest |-> frame])
  /\ UNCHANGED <<sideVars, muxVars, demuxVars, argVars, transport, reference>>

(* the muxed input closes, whatever it has carried: pipeTo closes the sink,
   whose close() does nothing *)
InputClose ==
  /\ transport.state = "open"
  /\ wire = <<>>
  /\ transport' = [transport EXCEPT !.state = "closed"]
  /\ \E d \in {IF sink = "writable" THEN DemuxClose([demuxed |-> demuxed, sink |-> sink])
                ELSE [demuxed |-> demuxed, sink |-> sink]} :
       /\ demuxed' = d.demuxed
       /\ sink' = d.sink
  /\ reference' = [reference EXCEPT !.sink = IF @ = "writable" THEN "closed" ELSE @]
  /\ UNCHANGED <<sideVars, muxVars, argVars, wire>>

NextFrames ==
  \/ \E frame \in FrameInputs : Send(frame)
  \/ \E k \in 1 .. Len(wire) : TransportDeliver(k, 0)
  \/ InputClose

SpecFrames == InitFrames /\ [][NextFrames]_vars

(***************************************************************************)
(* Properties of the demuxer fed by any sender, checked under SpecFrames.  *)
(***************************************************************************)
(* the step writes the demuxer one chunk made of the single frame on the wire *)
WritesFrame(frame) ==
  /\ wire = <<[frame |-> frame, rest |-> frame]>>
  /\ wire' = <<>>
  /\ sink = "writable"

FrameId(frame) == arrayToHeader(frame).header.id

(* C35 (as claimed): frames for a closed output.  A frame whose id is that of
   an output already closed by a terminal frame writes nothing to any
   output and raises no failure: the sink stays writable and the input is
   not cancelled, so that the frames that follow are still routed. *)
C35_LateFrameIgnored ==
  [][\A frame \in FrameInputs :
       (WritesFrame(frame) /\ demuxed[FrameId(frame)].state = "closed") =>
         /\ demuxed' = demuxed
         /\ sink' = "writable"
         /\ transport'.state = "open"]_vars

(* the outputs other than output i are as they were *)
OthersUnchanged(i) == \A j \in DOMAIN demuxed \ {i} : demuxed'[j] = demuxed[j]

(* what writing the frame does to the output of its id when that output is
   open: a data frame appends its value, a terminal frame closes the output
   and leaves its queue alone *)
FrameEffect(frame) ==
  LET i == FrameId(frame)
  IN /\ \A v \in FrameValues :
          frame = DataFrame(i, v) =>
            demuxed'[i] = [demuxed[i] EXCEPT !.queue = Append(@, v)]
     /\ frame = TerminalFrame(i) =>
          demuxed'[i] = [demuxed[i] EXCEPT !.state = "closed"]

(* C38: demux routing frame effect.  Processing a well-formed frame with id
   i changes only output i: a data frame appends exactly one value, its own,
   to output i; a terminal frame closes output i and enqueues no value, so
   its sentinel payload is never delivered; the queue and the state of every
   other output are left unchanged. *)
C38_FrameChangesOnlyItsOutput ==
  [][\A frame \in FrameInputs :
       WritesFrame(frame) =>
         /\ OthersUnchanged(FrameId(frame))
         /\ demuxed[FrameId(frame)].state = "readable" => FrameEffect(frame)]_vars

(* one output has been given a value and closed by its terminal frame while
   another, given a value too, is still open *)
C38_OneClosedOneOpen ==
  \E i, j \in Ids :
    /\ i # j
    /\ demuxed[i] = [queue |-> <<Num(12)>>, state |-> "closed", error |-> ""]
    /\ demuxed[j] = [queue |-> <<Str(<<97>>)>>, state |-> "readable", error |-> ""]
    /\ sink = "writable"
    /\ wire = <<>>

(* a step in which the muxed input closes without an error *)
InputCloses == transport.state = "open" /\ transport'.state = "closed"

(* output i becomes closed in a step that writes its terminal frame *)
ClosedByOwnTerminalFrame(i) ==
  (demuxed[i].state # "closed" /\ demuxed'[i].state = "closed") =>
    /\ ~InputCloses
    /\ \E k \in 1 .. Len(wire) :
         /\ wire[k].frame = TerminalFrame(i)
         /\ Len(wire') <= Len(wire) - k

(* C39: normal close of the input changes no output.  When the muxed input
   closes without error the demuxer neither closes nor errors any output; an
   output is closed only by its own terminal frame, so an output whose
   terminal frame never arrived stays open after the input has closed. *)
C39_InputCloseChangesNoOutput ==
  /\ [][InputCloses => demuxed' = demuxed]_vars
  /\ [][\A i \in Ids : ClosedByOwnTerminalFrame(i)]_vars
  /\ [](transport.state = "closed" =>
          \A i \in Ids : demuxed[i].state \in {"readable", "closed"})

(* the input has closed after the terminal frame of one id only: the output
   of another id, which has been given a value, is still open *)
C39_TruncatedInputLeavesOpen ==
  \E i, j \in Ids :
    /\ transport.state = "closed"
    /\ sink = "closed"
    /\ demuxed[i].state = "closed"
    /\ demuxed[j].state = "readable"
    /\ demuxed[j].queue # <<>>
====
